---------------------------- MODULE Spec2Model ----------------------------
(***************************************************************************)
(* Model of the azox-mc player-data tools.                                 *)
(*                                                                         *)
(*  - the NBT codec of tools/nbtworks/nbt_lib.py (NBTReader, NBTWriter):    *)
(*    the reader is a step machine over the input bytes (one step per      *)
(*    loop iteration of read_compound or of a list comprehension), the     *)
(*    writer is a recursive operator over the decoded value;               *)
(*  - the save pipeline of tools/bad (push_undo, backup_file, save_nbt,     *)
(*    the Save and Undo buttons) and save_player_data of nbt_lib.py, over  *)
(*    a file system of path, path.bak and path.undoN.                      *)
(*                                                                         *)
(* Bytes are integers 0..255.  A decoded Python value is a record          *)
(*   [t |-> "int",   v |-> the value as 8 two's-complement bytes]          *)
(*   [t |-> "float", v |-> the value as the 8 bytes of an IEEE double]     *)
(*   [t |-> "str",   v |-> its UTF-8 bytes]                                *)
(*   [t |-> "list",  v |-> sequence of values]                             *)
(*   [t |-> "dict",  v |-> sequence of [k |-> name bytes, val |-> value],  *)
(*                         in insertion order, keys unique]                *)
(*   [t |-> "none",  v |-> <<>>]                                           *)
(***************************************************************************)
EXTENDS Integers, Sequences, FiniteSets, TLC

VARIABLES
    \* ---- codec (nbt_lib.py) ----
    data,        \* NBTReader.data: the decompressed input bytes
    pos,         \* NBTReader.pos
    stack,       \* the active read_compound / list-comprehension calls
    rstatus,     \* "new" | "start" | "reading" | "returned" | "raised" | "written"
    result,      \* what read_root returned
    iter,        \* parity of the number of reader steps taken
    out,         \* what write_root returned for result (Raised if it raised)
    \* ---- save pipeline (tools/bad, nbt_lib.save_player_data) ----
    fs,          \* the files: path, path.bak, path.undo1 .. path.undoN
    tool,        \* which program runs: "mcplayer2" | "nbtviewer" | "nbt_lib"
    nbt_file,    \* the loaded tree (its version), NoTree when none is loaded
    pc,          \* where the program is
    rot,         \* loop variable i of push_undo
    reported,    \* what the last operation told the caller
    saves,       \* one record per save begun: the files before it, its fate
    lastUndo,    \* the same for the last Undo begun
    faults,      \* number of system calls that have failed
    undos,       \* number of times the Undo button was pressed
    \* ---- editing helpers (nbt_tool.py, mcplayer2.py, mcplayer.py) ----
    field,       \* a scalar field of the player: the edit made and its outcome
    root,        \* the item lists of the player: Inventory, EnderItems
    lastOp,      \* the last inventory operation: what it was, what it found
    \* ---- item-spec parser (nbt_lib.py) ----
    parse,       \* the text given to the parser and what it returned
    \* ---- player lookup (nbt_lib.py, nbtcore.py, mcplayer.py) ----
    server,      \* the server directory: player files, usercache, last answer
    \* ---- loaded tree and its views (mcplayer2.py, nbtviewer.py) ----
    session      \* the file object, the tree the editor works on, the file

codecVars == <<data, pos, stack, rstatus, result, iter, out>>
saveVars  == <<fs, tool, nbt_file, pc, rot, reported, saves, lastUndo,
               faults, undos>>
helperVars == <<field, root, lastOp, parse, server, session>>
vars      == <<codecVars, saveVars, helperVars>>

----------------------------------------------------------------------------
(* Generic helpers *)

Min(a, b) == IF a < b THEN a ELSE b
Max(a, b) == IF a > b THEN a ELSE b

RECURSIVE Flatten(_)
Flatten(ss) == IF ss = <<>> THEN <<>> ELSE Head(ss) \o Flatten(Tail(ss))

\* Python slice s[a:b] of a bytes object: negative indices count from the
\* end, out-of-range indices are clamped, an empty range gives b''.
PySlice(s, a, b) ==
    LET n  == Len(s)
        lo == IF a < 0 THEN Max(a + n, 0) ELSE Min(a, n)
        hi == IF b < 0 THEN Max(b + n, 0) ELSE Min(b, n)
    IN  IF lo >= hi THEN <<>> ELSE SubSeq(s, lo + 1, hi)

Rep(b, n) == [i \in 1..n |-> b]

\* The integer held in w big-endian two's-complement bytes, as 8 bytes.
SignExtend(bs) ==
    Rep(IF bs[1] >= 128 THEN 255 ELSE 0, 8 - Len(bs)) \o bs

\* -2^(8w-1) <= v <= 2^(8w-1)-1 for an integer v held as 8 bytes.
FitsIn(v, w) ==
    \/ (\A i \in 1..(8 - w) : v[i] = 0)   /\ v[8 - w + 1] < 128
    \/ (\A i \in 1..(8 - w) : v[i] = 255) /\ v[8 - w + 1] >= 128

Pow256(n) == IF n = 0 THEN 1 ELSE IF n = 1 THEN 256
             ELSE IF n = 2 THEN 65536 ELSE 16777216

\* struct.unpack of '>B' / '>b', '>h', '>i': the value of 1, 2 or 4
\* big-endian bytes, unsigned and signed (two's complement).
RECURSIVE Unsigned(_)
Unsigned(bs) ==
    IF bs = <<>> THEN 0
    ELSE Unsigned(SubSeq(bs, 1, Len(bs) - 1)) * 256 + bs[Len(bs)]

Signed(bs) ==
    (IF bs[1] >= 128 THEN bs[1] - 256 ELSE bs[1]) * Pow256(Len(bs) - 1)
        + Unsigned(Tail(bs))

\* struct.pack('>i', n) for 0 <= n < 2^31.
PackLen(n) ==
    << n \div 16777216, (n \div 65536) % 256, (n \div 256) % 256, n % 256 >>

\* bytes.decode('utf-8') succeeds: well-formed UTF-8 (no overlong forms, no
\* surrogates, nothing above U+10FFFF).
IsCont(b) == b >= 128 /\ b <= 191
RECURSIVE Utf8Valid(_)
Utf8Valid(bs) ==
    IF bs = <<>> THEN TRUE
    ELSE LET b == bs[1]
             n == Len(bs)
         IN  IF b < 128 THEN Utf8Valid(Tail(bs))
             ELSE IF b >= 194 /\ b <= 223
                  THEN n >= 2 /\ IsCont(bs[2]) /\ Utf8Valid(SubSeq(bs, 3, n))
             ELSE IF b >= 224 /\ b <= 239
                  THEN /\ n >= 3 /\ IsCont(bs[2]) /\ IsCont(bs[3])
                       /\ (b = 224 => bs[2] >= 160)
                       /\ (b = 237 => bs[2] <= 159)
                       /\ Utf8Valid(SubSeq(bs, 4, n))
             ELSE IF b >= 240 /\ b <= 244
                  THEN /\ n >= 4 /\ IsCont(bs[2]) /\ IsCont(bs[3]) /\ IsCont(bs[4])
                       /\ (b = 240 => bs[2] >= 144)
                       /\ (b = 244 => bs[2] <= 143)
                       /\ Utf8Valid(SubSeq(bs, 5, n))
             ELSE FALSE

\* The IEEE-754 binary64 bytes of the value held in 4 binary32 bytes: what
\* struct.unpack('>f') followed by struct.pack('>d') produces.  Zero and
\* normal numbers (exponent field 1..254) are exact; infinities and NaNs keep
\* the all-ones exponent; subnormal inputs are not among the inputs drawn.
F32toF64(bs) ==
    LET sign == bs[1] \div 128
        e    == (bs[1] % 128) * 2 + bs[2] \div 128
        m    == (bs[2] % 128) * 65536 + bs[3] * 256 + bs[4]
        E    == IF e = 0 THEN 0 ELSE IF e = 255 THEN 2047 ELSE e + 896
    IN  << sign * 128 + E \div 16,
           (E % 16) * 16 + m \div 524288,
           (m \div 2048) % 256,
           (m \div 8) % 256,
           (m % 8) * 32,
           0, 0, 0 >>

----------------------------------------------------------------------------
(* NBTReader *)

TAG_End        == 0
TAG_Byte       == 1
TAG_Short      == 2
TAG_Int        == 3
TAG_Long       == 4
TAG_Float      == 5
TAG_Double     == 6
TAG_Byte_Array == 7
TAG_String     == 8
TAG_List       == 9
TAG_Compound   == 10
TAG_Int_Array  == 11
TAG_Long_Array == 12

None == [t |-> "none", v |-> <<>>]
IntVal(bs)   == [t |-> "int", v |-> SignExtend(bs)]
FloatVal(bs) == [t |-> "float", v |-> bs]
StrVal(bs)   == [t |-> "str", v |-> bs]
ListVal(xs)  == [t |-> "list", v |-> xs]
DictVal(kvs) == [t |-> "dict", v |-> kvs]

\* A reader outcome: ok = FALSE when the call raised; p is self.pos after it.
Ok(val, p) == [ok |-> TRUE, val |-> val, p |-> p]
Raise(p)   == [ok |-> FALSE, val |-> None, p |-> p]

\* read_byte, read_short, read_int, read_long (w = 1, 2, 4, 8): struct.unpack
\* raises when the slice is shorter than w, before self.pos is advanced.
ReadInt(d, p, w) ==
    LET bs == PySlice(d, p, p + w)
    IN  IF Len(bs) = w THEN Ok(IntVal(bs), p + w) ELSE Raise(p)

\* read_ubyte: the raw byte, as a number.
ReadUByte(d, p) ==
    LET bs == PySlice(d, p, p + 1)
    IN  IF Len(bs) = 1 THEN [ok |-> TRUE, val |-> bs[1], p |-> p + 1]
        ELSE [ok |-> FALSE, val |-> 0, p |-> p]

\* read_short / read_int used for a length: the signed number.
ReadLen(d, p, w) ==
    LET bs == PySlice(d, p, p + w)
    IN  IF Len(bs) = w THEN [ok |-> TRUE, val |-> Signed(bs), p |-> p + w]
        ELSE [ok |-> FALSE, val |-> 0, p |-> p]

ReadFloat(d, p) ==
    LET bs == PySlice(d, p, p + 4)
    IN  IF Len(bs) = 4 THEN Ok(FloatVal(F32toF64(bs)), p + 4) ELSE Raise(p)

ReadDouble(d, p) ==
    LET bs == PySlice(d, p, p + 8)
    IN  IF Len(bs) = 8 THEN Ok(FloatVal(bs), p + 8) ELSE Raise(p)

\* read_string: a signed short length, then data[pos:pos+length] decoded,
\* then pos += length (whatever the sign of length).
ReadString(d, p) ==
    LET len == ReadLen(d, p, 2)
        bs  == PySlice(d, len.p, len.p + len.val)
    IN  IF ~len.ok THEN Raise(len.p)
        ELSE IF ~Utf8Valid(bs) THEN Raise(len.p)
        ELSE Ok(StrVal(bs), len.p + len.val)

\* [self.read_xxx() for _ in range(n)] for the array kinds: n elements of
\* w bytes each; range(n) is empty for n <= 0.
RECURSIVE ReadArray(_, _, _, _)
ReadArray(d, p, n, w) ==
    IF n <= 0 THEN Ok(<<>>, p)
    ELSE LET x == ReadInt(d, p, w)
         IN  IF ~x.ok THEN Raise(x.p)
             ELSE LET rest == ReadArray(d, x.p, n - 1, w)
                  IN  IF ~rest.ok THEN Raise(rest.p)
                      ELSE Ok(<<x.val>> \o rest.val, rest.p)

ReadArrayTag(d, p, w) ==
    LET len == ReadLen(d, p, 4)
        xs  == ReadArray(d, len.p, len.val, w)
    IN  IF ~len.ok THEN Raise(len.p)
        ELSE IF ~xs.ok THEN Raise(xs.p)
        ELSE Ok(ListVal(xs.val), xs.p)

\* The branches of read_tag that make no recursive call.  A tag_type that
\* matches no branch (TAG_End, or anything above 12) falls off the end of
\* the if-chain: None is returned and nothing is read.
IsContainer(tag_type) == tag_type \in {TAG_List, TAG_Compound}

ReadLeaf(d, p, tag_type) ==
    IF tag_type = TAG_Byte THEN ReadInt(d, p, 1)
    ELSE IF tag_type = TAG_Short THEN ReadInt(d, p, 2)
    ELSE IF tag_type = TAG_Int THEN ReadInt(d, p, 4)
    ELSE IF tag_type = TAG_Long THEN ReadInt(d, p, 8)
    ELSE IF tag_type = TAG_Float THEN ReadFloat(d, p)
    ELSE IF tag_type = TAG_Double THEN ReadDouble(d, p)
    ELSE IF tag_type = TAG_Byte_Array THEN ReadArrayTag(d, p, 1)
    ELSE IF tag_type = TAG_String THEN ReadString(d, p)
    ELSE IF tag_type = TAG_Int_Array THEN ReadArrayTag(d, p, 4)
    ELSE IF tag_type = TAG_Long_Array THEN ReadArrayTag(d, p, 8)
    ELSE Ok(None, p)

\* Python's recursion limit (sys.getrecursionlimit(), 1000 by default),
\* scaled down: the number of nested read_compound / list calls that can be
\* active before RecursionError is raised.
MaxDepth == 4

\* One frame per active read_compound call or list comprehension of
\* read_tag: key is the name under which the parent compound will store the
\* value, items what has been read so far, type/left the element kind and
\* the iterations still to run of a list comprehension.
CompoundFrame(key) ==
    [kind |-> "compound", key |-> key, items |-> <<>>, type |-> 0, left |-> 0]
ListFrame(key, list_type, length) ==
    [kind |-> "list", key |-> key, items |-> <<>>, type |-> list_type,
     left |-> length]

Top(st) == st[Len(st)]
Below(st) == SubSeq(st, 1, Len(st) - 1)

\* compound[name] = val on a dict: a new key is appended, an existing key
\* keeps its place and gets the new value.
DictSet(kvs, k, val) ==
    IF \E i \in 1..Len(kvs) : kvs[i].k = k
    THEN [i \in 1..Len(kvs) |->
            IF kvs[i].k = k THEN [k |-> k, val |-> val] ELSE kvs[i]]
    ELSE Append(kvs, [k |-> k, val |-> val])

\* The value a finished call hands to the call that made it.
Deliver(st, key, val) ==
    LET f == Top(st)
    IN  IF f.kind = "compound"
        THEN Append(Below(st), [f EXCEPT !.items = DictSet(f.items, key, val)])
        ELSE Append(Below(st), [f EXCEPT !.items = Append(f.items, val),
                                         !.left = f.left - 1])

FrameValue(f) == IF f.kind = "compound" THEN DictVal(f.items) ELSE ListVal(f.items)

ReaderRaises(p) ==
    /\ rstatus' = "raised"
    /\ pos' = p
    /\ stack' = <<>>
    /\ result' = None
    /\ UNCHANGED <<data, out>>

\* return at the end of read_compound or of the list branch of read_tag.
ReaderReturns(p) ==
    LET f == Top(stack)
    IN  /\ pos' = p
        /\ IF Len(stack) = 1
           THEN /\ rstatus' = "returned"
                /\ result' = FrameValue(f)
                /\ stack' = <<>>
           ELSE /\ stack' = Deliver(Below(stack), f.key, FrameValue(f))
                /\ UNCHANGED <<rstatus, result>>
        /\ UNCHANGED <<data, out>>

\* self.read_tag(tag_type) called at position p, its value to be stored
\* under key by the caller on top of the stack.
ReadTag(tag_type, key, p) ==
    /\ UNCHANGED <<data, out>>
    /\ IF tag_type = TAG_Compound
       THEN IF Len(stack) >= MaxDepth
            THEN /\ rstatus' = "raised" /\ pos' = p /\ stack' = <<>>
                 /\ result' = None
            ELSE /\ stack' = Append(stack, CompoundFrame(key))
                 /\ pos' = p
                 /\ UNCHANGED <<rstatus, result>>
       ELSE IF tag_type = TAG_List
       THEN LET list_type == ReadUByte(data, p)
                length    == ReadLen(data, list_type.p, 4)
            IN  IF ~list_type.ok \/ ~length.ok \/ Len(stack) >= MaxDepth
                THEN /\ rstatus' = "raised" /\ stack' = <<>> /\ result' = None
                     /\ pos' = IF list_type.ok THEN length.p ELSE list_type.p
                ELSE /\ stack' = Append(stack,
                                   ListFrame(key, list_type.val, length.val))
                     /\ pos' = length.p
                     /\ UNCHANGED <<rstatus, result>>
       ELSE LET r == ReadLeaf(data, p, tag_type)
            IN  IF ~r.ok
                THEN /\ rstatus' = "raised" /\ stack' = <<>> /\ result' = None
                     /\ pos' = r.p
                ELSE /\ stack' = Deliver(stack, key, r.val)
                     /\ pos' = r.p
                     /\ UNCHANGED <<rstatus, result>>

\* read_root up to its call of read_compound.
ReadRoot ==
    /\ rstatus = "start"
    /\ iter' = 1 - iter
    /\ UNCHANGED <<saveVars, helperVars>>
    /\ LET tag_type == ReadUByte(data, pos)
           name     == ReadString(data, tag_type.p)
       IN  IF ~tag_type.ok THEN ReaderRaises(tag_type.p)
           ELSE IF tag_type.val # TAG_Compound THEN ReaderRaises(tag_type.p)
           ELSE IF ~name.ok THEN ReaderRaises(name.p)
           ELSE /\ rstatus' = "reading"
                /\ stack' = <<CompoundFrame(<<>>)>>
                /\ pos' = name.p
                /\ UNCHANGED <<data, result, out>>

\* One iteration of the while loop of read_compound.
ReadCompoundStep ==
    /\ rstatus = "reading"
    /\ Top(stack).kind = "compound"
    /\ iter' = 1 - iter
    /\ UNCHANGED <<saveVars, helperVars>>
    /\ LET tag_type == ReadUByte(data, pos)
           name     == ReadString(data, tag_type.p)
       IN  IF ~tag_type.ok THEN ReaderRaises(tag_type.p)
           ELSE IF tag_type.val = TAG_End THEN ReaderReturns(tag_type.p)
           ELSE IF ~name.ok THEN ReaderRaises(name.p)
           ELSE ReadTag(tag_type.val, name.val.v, name.p)

\* One iteration of [self.read_tag(list_type) for _ in range(length)], or its
\* end.
ReadListStep ==
    /\ rstatus = "reading"
    /\ Top(stack).kind = "list"
    /\ iter' = 1 - iter
    /\ UNCHANGED <<saveVars, helperVars>>
    /\ IF Top(stack).left <= 0
       THEN ReaderReturns(pos)
       ELSE ReadTag(Top(stack).type, <<>>, pos)

ReaderStep == ReadRoot \/ ReadCompoundStep \/ ReadListStep

----------------------------------------------------------------------------
(* NBTWriter *)

\* The outcome of a writer call that raised; no byte is -1.
Raised == <<-1>>

\* The bytes of the parts written one after the other, Raised if one raised.
Cat(parts) ==
    IF \E i \in 1..Len(parts) : parts[i] = Raised THEN Raised ELSE Flatten(parts)

\* struct.pack('>b' / '>h' / '>i' / '>q', val): the low w bytes of a value
\* that fits w bytes.
PackInt(v, w) == SubSeq(v, 8 - w + 1, 8)

\* write_string: the length goes through write_short, whose struct.pack('>h')
\* raises above 32767.
WriteString(bs) ==
    IF Len(bs) > 32767 THEN Raised
    ELSE << Len(bs) \div 256, Len(bs) % 256 >> \o bs

\* The tag type write_tag returns for val, -1 when write_tag raises.  For a
\* non-empty list write_tag calls itself on the first element before it
\* returns.
RECURSIVE TagOf(_)
TagOf(val) ==
    IF val.t = "int"
    THEN IF FitsIn(val.v, 1) THEN TAG_Byte
         ELSE IF FitsIn(val.v, 2) THEN TAG_Short
         ELSE IF FitsIn(val.v, 4) THEN TAG_Int
         ELSE TAG_Long
    ELSE IF val.t = "float" THEN TAG_Double
    ELSE IF val.t = "str" THEN TAG_String
    ELSE IF val.t = "list"
    THEN IF val.v # <<>> /\ TagOf(val.v[1]) = -1 THEN -1 ELSE TAG_List
    ELSE IF val.t = "dict" THEN TAG_Compound
    ELSE -1

\* The bytes the writer lambda of write_tag appends for val (write_list and
\* write_compound included), Raised when write_tag or the lambda raises.
RECURSIVE WritePayload(_)
WritePayload(val) ==
    IF TagOf(val) = -1 THEN Raised
    ELSE IF val.t = "int"
    THEN PackInt(val.v, IF FitsIn(val.v, 1) THEN 1
                        ELSE IF FitsIn(val.v, 2) THEN 2
                        ELSE IF FitsIn(val.v, 4) THEN 4 ELSE 8)
    ELSE IF val.t = "float" THEN val.v
    ELSE IF val.t = "str" THEN WriteString(val.v)
    ELSE IF val.t = "list"
    THEN IF val.v = <<>>
         THEN <<TAG_End>> \o PackLen(0)
         ELSE Cat(<< <<TagOf(val.v[1])>>, PackLen(Len(val.v)) >>
                  \o [i \in 1..Len(val.v) |-> WritePayload(val.v[i])])
    ELSE Cat([i \in 1..Len(val.v) |->
                Cat(<< <<TagOf(val.v[i].val)>>,
                       WriteString(val.v[i].k),
                       WritePayload(val.v[i].val) >>)]
             \o << <<TAG_End>> >>)

\* write_root(compound, name=""): every caller leaves name at its default.
WriteRoot(compound) ==
    Cat(<< <<TAG_Compound>>, WriteString(<<>>), WritePayload(compound) >>)

\* NBTWriter().write_root(tree) applied to what read_root returned.
WriteBack ==
    /\ rstatus = "returned"
    /\ rstatus' = "written"
    /\ out' = WriteRoot(result)
    /\ UNCHANGED <<data, pos, stack, result, iter>>
    /\ UNCHANGED <<saveVars, helperVars>>

----------------------------------------------------------------------------
(* The reader as a function of the bytes: read_root, read_compound and      *)
(* read_tag run to their end on d, used to read again what the writer       *)
(* wrote.                                                                   *)

RECURSIVE read_tag(_, _, _), read_list(_, _, _, _, _), read_compound(_, _, _)

\* read_tag at position p: the list branch reads the element kind and the
\* length, then length elements; the compound branch calls read_compound.
read_tag(d, p, tag_type) ==
    IF tag_type = TAG_Compound THEN read_compound(d, p, <<>>)
    ELSE IF tag_type = TAG_List
    THEN LET list_type == ReadUByte(d, p)
             length    == ReadLen(d, list_type.p, 4)
         IN  IF ~list_type.ok THEN Raise(list_type.p)
             ELSE IF ~length.ok THEN Raise(length.p)
             ELSE read_list(d, length.p, list_type.val, length.val, <<>>)
    ELSE ReadLeaf(d, p, tag_type)

\* [self.read_tag(list_type) for _ in range(length)] with left iterations
\* still to run.
read_list(d, p, list_type, left, items) ==
    IF left <= 0 THEN Ok(ListVal(items), p)
    ELSE LET x == read_tag(d, p, list_type)
         IN  IF ~x.ok THEN Raise(x.p)
             ELSE read_list(d, x.p, list_type, left - 1, Append(items, x.val))

\* The loop of read_compound, with the entries read so far.
read_compound(d, p, items) ==
    LET tag_type == ReadUByte(d, p)
        name     == ReadString(d, tag_type.p)
    IN  IF ~tag_type.ok THEN Raise(tag_type.p)
        ELSE IF tag_type.val = TAG_End THEN Ok(DictVal(items), tag_type.p)
        ELSE IF ~name.ok THEN Raise(name.p)
        ELSE LET x == read_tag(d, name.p, tag_type.val)
             IN  IF ~x.ok THEN Raise(x.p)
                 ELSE read_compound(d, x.p, DictSet(items, name.val.v, x.val))

\* NBTReader(d).read_root().
read_root(d) ==
    LET tag_type == ReadUByte(d, 0)
        name     == ReadString(d, tag_type.p)
    IN  IF ~tag_type.ok THEN Raise(tag_type.p)
        ELSE IF tag_type.val # TAG_Compound THEN Raise(tag_type.p)
        ELSE IF ~name.ok THEN Raise(name.p)
        ELSE read_compound(d, name.p, <<>>)

----------------------------------------------------------------------------
(* The NBT binary format (the table of tag kinds), as a recogniser of byte  *)
(* streams: what a valid decompressed player file is, and the kind ids of  *)
(* the tags it holds.  Offsets are 0-based; a result holds the offset after *)
(* the item (-1 when the bytes are not of the format) and the kind ids of   *)
(* the named tags and list elements met, in file order.                    *)

Bad == [p |-> -1, ks |-> <<>>]
At(p, ks) == [p |-> p, ks |-> ks]

\* Payload width of the fixed-size kinds; element width of the array kinds.
FmtWidth(kind) ==
    IF kind \in {TAG_Byte, TAG_Byte_Array} THEN 1
    ELSE IF kind = TAG_Short THEN 2
    ELSE IF kind \in {TAG_Int, TAG_Float, TAG_Int_Array} THEN 4
    ELSE 8

\* A String: unsigned 16-bit length, then that many bytes of UTF-8.
FmtString(d, p) ==
    IF p + 2 > Len(d) THEN -1
    ELSE LET n == Unsigned(SubSeq(d, p + 1, p + 2))
         IN  IF p + 2 + n > Len(d) \/ ~Utf8Valid(SubSeq(d, p + 3, p + 2 + n))
             THEN -1
             ELSE p + 2 + n

RECURSIVE FmtPayload(_, _, _), FmtList(_, _, _, _), FmtCompound(_, _, _)
FmtPayload(d, kind, p) ==
    IF kind \in {TAG_Byte, TAG_Short, TAG_Int, TAG_Long, TAG_Float, TAG_Double}
    THEN IF p + FmtWidth(kind) <= Len(d) THEN At(p + FmtWidth(kind), <<>>) ELSE Bad
    ELSE IF kind \in {TAG_Byte_Array, TAG_Int_Array, TAG_Long_Array}
    THEN IF p + 4 > Len(d) THEN Bad
         ELSE LET n == Signed(SubSeq(d, p + 1, p + 4))
              IN  IF n < 0 \/ n > Len(d) \/ p + 4 + n * FmtWidth(kind) > Len(d)
                  THEN Bad
                  ELSE At(p + 4 + n * FmtWidth(kind), <<>>)
    ELSE IF kind = TAG_String
    THEN IF FmtString(d, p) = -1 THEN Bad ELSE At(FmtString(d, p), <<>>)
    ELSE IF kind = TAG_List
    THEN IF p + 5 > Len(d) THEN Bad
         ELSE LET ek == d[p + 1]
                  n  == Signed(SubSeq(d, p + 2, p + 5))
              IN  IF n < 0 \/ n > Len(d) \/ ek > TAG_Long_Array THEN Bad
                  ELSE IF n = 0 THEN At(p + 5, <<>>)
                  ELSE IF ek = TAG_End THEN Bad
                  ELSE FmtList(d, ek, n, p + 5)
    ELSE IF kind = TAG_Compound THEN FmtCompound(d, p, {})
    ELSE Bad

FmtList(d, ek, n, p) ==
    IF n = 0 THEN At(p, <<>>)
    ELSE LET x == FmtPayload(d, ek, p)
         IN  IF x.p = -1 THEN Bad
             ELSE LET r == FmtList(d, ek, n - 1, x.p)
                  IN  IF r.p = -1 THEN Bad
                      ELSE At(r.p, <<ek>> \o x.ks \o r.ks)

FmtCompound(d, p, seen) ==
    IF p + 1 > Len(d) THEN Bad
    ELSE IF d[p + 1] = TAG_End THEN At(p + 1, <<>>)
    ELSE IF d[p + 1] > TAG_Long_Array \/ FmtString(d, p + 1) = -1 THEN Bad
    ELSE LET q    == FmtString(d, p + 1)
             name == SubSeq(d, p + 4, q)
             x    == FmtPayload(d, d[p + 1], q)
         IN  IF name \in seen \/ x.p = -1 THEN Bad
             ELSE LET r == FmtCompound(d, x.p, seen \cup {name})
                  IN  IF r.p = -1 THEN Bad
                      ELSE At(r.p, <<d[p + 1]>> \o x.ks \o r.ks)

\* A whole file: kind byte 0x0A, the root name, one Compound, nothing after.
FmtFile(d) ==
    IF Len(d) < 1 \/ d[1] # TAG_Compound \/ FmtString(d, 1) = -1 THEN Bad
    ELSE LET r == FmtCompound(d, FmtString(d, 1), {})
         IN  IF r.p = Len(d) THEN r ELSE Bad

ValidFile(d) == FmtFile(d).p # -1
FileKinds(d) == FmtFile(d).ks

----------------------------------------------------------------------------
(* The inputs of the codec: a root header, up to MaxEntries entries drawn   *)
(* from a catalogue of well-formed and malformed named tags, a terminator.  *)

MaxEntries == 2

Named(kind, letter, payload) == <<kind, 0, 1, letter>> \o payload

WellFormedEntries ==
    { Named(TAG_Byte, 97, <<3>>),                                 \* a: Byte 3
      Named(TAG_Short, 98, <<0, 5>>),                             \* b: Short 5
      Named(TAG_Short, 99, <<1, 44>>),                            \* c: Short 300
      Named(TAG_Int, 100, <<0, 0, 0, 18>>),                       \* d: Int 18
      Named(TAG_Int, 101, <<0, 1, 0, 0>>),                        \* e: Int 65536
      Named(TAG_Long, 102, <<0, 0, 0, 0, 0, 0, 0, 7>>),           \* f: Long 7
      Named(TAG_Long, 103, <<0, 0, 1, 0, 0, 0, 0, 0>>),           \* g: Long 2^40
      Named(TAG_Float, 104, <<64, 160, 0, 0>>),                   \* h: Float 5.0
      Named(TAG_Double, 105, <<63, 248, 0, 0, 0, 0, 0, 0>>),      \* i: Double 1.5
      Named(TAG_Byte_Array, 106, <<0, 0, 0, 1, 1>>),              \* j: ByteArray [1]
      Named(TAG_String, 107, <<0, 1, 120>>),                      \* k: String "x"
      Named(TAG_List, 108, <<TAG_Short, 0, 0, 0, 2, 0, 1, 1, 44>>), \* l: [1, 300]
      Named(TAG_List, 109, <<TAG_End, 0, 0, 0, 0>>),              \* m: empty list
      Named(TAG_List, 110, <<TAG_Compound, 0, 0, 0, 0>>),         \* n: empty list of Compound
      Named(TAG_Compound, 111, <<0>>),                            \* o: {}
      Named(TAG_Compound, 112,
            Named(TAG_Byte, 97, <<3>>) \o <<0>>),                 \* p: {a: Byte 3}
      Named(TAG_List, 113, <<TAG_Compound, 0, 0, 0, 1>>
            \o Named(TAG_Byte, 97, <<3>>) \o <<0>>),              \* q: [{a: Byte 3}]
      Named(TAG_Int_Array, 114, <<0, 0, 0, 1, 0, 0, 0, 7>>),      \* r: IntArray [7]
      Named(TAG_Long_Array, 115, <<0, 0, 0, 0>>) }                \* s: LongArray []

MalformedEntries ==
    { <<13, 255, 253>>,                           \* kind 13, name length 0xFFFD
      <<13, 255, 250>>,                           \* kind 13, name length 0xFFFA
      Named(13, 117, <<>>),                       \* u: kind 13
      Named(TAG_String, 118, <<255, 255>>),       \* v: String of length 0xFFFF
      Named(TAG_List, 119, <<TAG_Byte, 255, 255, 255, 255>>), \* w: List of length -1
      Named(TAG_List, 120, <<TAG_End, 0, 0, 0, 2>>),          \* x: 2 elements of kind End
      <<TAG_Int, 0, 1, 121, 0>>,                  \* y: Int cut after one byte
      <<TAG_Byte, 255, 254, 5>> }                 \* Byte, name length 0xFFFE

Catalogue == WellFormedEntries \cup MalformedEntries

RECURSIVE Bodies(_)
Bodies(n) ==
    IF n = 0 THEN {<<>>}
    ELSE Bodies(n - 1) \cup {b \o e : b \in Bodies(n - 1), e \in Catalogue}

Headers ==
    { <<TAG_Compound, 0, 0>>,            \* root named ""
      <<TAG_Compound, 0, 1, 122>>,       \* root named "z"
      <<TAG_Byte, 0, 0>> }               \* root is not a Compound

Trailers == { <<TAG_End>>, <<>> }

Inputs == {h \o b \o t : h \in Headers, b \in Bodies(MaxEntries), t \in Trailers}

\* No tree is loaded (nbt_file = None).
NoTree == -1000

\* The editing helpers and the parser are not part of the codec's or the
\* save pipeline's runs.
HelpersOff ==
    /\ field = <<>> /\ root = <<>> /\ lastOp = <<>> /\ parse = <<>>
    /\ server = <<>> /\ session = <<>>

\* The save pipeline is not part of the codec's runs.
SaveOff ==
    /\ fs = <<>> /\ tool = "none" /\ nbt_file = NoTree /\ pc = "off" /\ rot = 0
    /\ reported = "" /\ saves = <<>> /\ lastUndo = <<>>
    /\ faults = 0
    /\ undos = 0

\* Before a reader exists.
CodecInit ==
    /\ data = <<>>
    /\ pos = 0
    /\ stack = <<>>
    /\ rstatus = "new"
    /\ result = None
    /\ iter = 0
    /\ out = <<>>
    /\ SaveOff
    /\ HelpersOff

\* NBTReader(data): __init__.
NewReader ==
    /\ rstatus = "new"
    /\ \E d \in Inputs : data' = d
    /\ pos' = 0
    /\ rstatus' = "start"
    /\ UNCHANGED <<stack, result, iter, out>>
    /\ UNCHANGED <<saveVars, helperVars>>

CodecNext == NewReader \/ ReadRoot \/ ReadCompoundStep \/ ReadListStep \/ WriteBack

CodecSpec == CodecInit /\ [][CodecNext]_vars

----------------------------------------------------------------------------
(* Claims about the codec, checked under CodecSpec *)

\* C1: round-trip fidelity: for every valid decompressed player-file byte
\* stream F, write_root(read_root(F)) equals F byte for byte.
C1_RoundTripFidelity ==
    ValidFile(data) =>
        /\ rstatus # "raised"
        /\ rstatus = "written" => out = data

\* C2: kind preservation: the kind id the encoder writes for every tag of a
\* decoded tree is the kind id that was read: the output of the round trip
\* is a valid file holding the same kind ids, in the same order, as the
\* input.
C2_KindPreservation ==
    (ValidFile(data) /\ rstatus = "written") =>
        /\ out # Raised
        /\ ValidFile(out)
        /\ FileKinds(out) = FileKinds(data)

\* C10: the decoder always terminates and its read position never moves
\* backwards: no step of the reader takes self.pos back, and none leaves the
\* reader where it was (still reading, at the same position, with the same
\* calls active and the same values read), from where the same step would
\* repeat for ever.
C10_DecoderTerminates ==
    [][ReaderStep =>
          /\ pos' >= pos
          /\ <<pos', stack', rstatus'>> # <<pos, stack, rstatus>>]_vars

\* The reader is about to read, as the kind of a named tag, a byte that is
\* no kind id (13..255).
BadKindRead ==
    /\ rstatus = "reading"
    /\ Top(stack).kind = "compound"
    /\ ReadUByte(data, pos).ok
    /\ ReadUByte(data, pos).val > TAG_Long_Array

\* The reader is about to read a named List, ByteArray, IntArray or LongArray
\* whose length field is negative.
NegativeLengthRead ==
    /\ rstatus = "reading"
    /\ Top(stack).kind = "compound"
    /\ LET tag_type == ReadUByte(data, pos)
           name     == ReadString(data, tag_type.p)
           at       == IF tag_type.val = TAG_List THEN name.p + 1 ELSE name.p
           length   == ReadLen(data, at, 4)
       IN  /\ tag_type.ok
           /\ tag_type.val \in {TAG_List, TAG_Byte_Array, TAG_Int_Array,
                                TAG_Long_Array}
           /\ name.ok
           /\ length.ok
           /\ length.val < 0

\* C11: format errors are reported: a step of the decoder that meets a kind
\* byte outside 0..12 or a negative length of a List, ByteArray, IntArray or
\* LongArray ends the decoding with an exception (no tree is returned).
C11_FormatErrorsReported ==
    [][(ReaderStep /\ (BadKindRead \/ NegativeLengthRead)) =>
          rstatus' = "raised"]_vars

\* Every list inside val is written by write_list with each element in the
\* kind write_list declared (the kind write_tag gave for the first element).
RECURSIVE UniformLists(_)
UniformLists(val) ==
    IF val.t = "list"
    THEN /\ \A i \in 1..Len(val.v) : TagOf(val.v[i]) = TagOf(val.v[1])
         /\ \A i \in 1..Len(val.v) : UniformLists(val.v[i])
    ELSE IF val.t = "dict"
    THEN \A i \in 1..Len(val.v) : UniformLists(val.v[i].val)
    ELSE TRUE

\* C12: list homogeneity: every List the encoder emits for a tree decoded
\* from a valid file writes each element payload in the element kind it
\* declared from the first element.
C12_ListHomogeneity ==
    (ValidFile(data) /\ rstatus = "written") => UniformLists(result)

\* C29: value-level round trip: every tree T that read_root returned is
\* written by write_root as bytes that read_root reads back as T (same keys,
\* same list lengths, same numbers and strings).
C29_ValueRoundTrip ==
    rstatus = "written" =>
        /\ out # Raised
        /\ read_root(out).ok
        /\ read_root(out).val = result

----------------------------------------------------------------------------
(* The files and the save pipeline *)

\* A file's content: v names the tree it encodes, n how many of its FileLen
\* blocks are on disk.  n = FileLen is a complete file, 0 <= n < FileLen a
\* file cut short (by a copy or a write that did not finish), n = -1 no file.
FileLen == 1

Absent == [v |-> 0, n |-> -1]
Complete(v) == [v |-> v, n |-> FileLen]
Exists(c) == c.n >= 0
IsComplete(c) == c.n = FileLen

UNDO_LIMIT_mcplayer2 == 10
UNDO_LIMIT_nbtviewer == 8

\* UNDO_LIMIT of the running program (nbtviewer.py and mcplayer/nbtcore.py
\* share the value and the code).
UNDO_LIMIT == IF tool = "mcplayer2" THEN UNDO_LIMIT_mcplayer2 ELSE UNDO_LIMIT_nbtviewer

\* The undo names the model follows: one more than the largest UNDO_LIMIT.
MaxSlot == UNDO_LIMIT_mcplayer2 + 1
Slots == 1..MaxSlot

\* A run makes at most MaxSaves saves and MaxUndos presses of the Undo button
\* and meets at most MaxFaults failing system calls.
MaxSaves == 2
MaxFaults == 1
MaxUndos == 1

Tools == {"mcplayer2", "nbtviewer", "nbt_lib"}
HasUndo(t) == t \in {"mcplayer2", "nbtviewer"}

\* The last save begun.
Save == saves[Len(saves)]
SetSave(key, val) == [saves EXCEPT ![Len(saves)][key] = val]

\* Files of a player whose file has been saved K times before by this tool:
\* a chain .undo1 .. .undoK of older contents and, once saved, a .bak.
Chain(K) == [i \in Slots |-> IF i <= K THEN Complete(0 - i) ELSE Absent]

\* The chain lengths a run starts from: never saved, the three files of
\* scenario S5, a full chain and, for the menu editor, one short of the
\* limit (the rotation loop of the three programs is the same code).
ChainLens(t) ==
    IF t = "mcplayer2"
    THEN {0, 3, UNDO_LIMIT_mcplayer2 - 1, UNDO_LIMIT_mcplayer2}
    ELSE {0, 3, UNDO_LIMIT_nbtviewer}

InitFiles(t) ==
    IF t = "nbt_lib"
    THEN { [path |-> Complete(0), bak |-> b, undo |-> Chain(0)] :
             b \in {Absent, Complete(0 - MaxSlot - 1)} }
    ELSE { [path |-> Complete(0),
            bak |-> IF K = 0 THEN Absent ELSE Complete(0 - MaxSlot - 1),
            undo |-> Chain(K)] : K \in ChainLens(t) }

\* The codec is not part of the save pipeline's runs.
CodecOff ==
    /\ data = <<>> /\ pos = 0 /\ stack = <<>> /\ rstatus = "off"
    /\ result = None /\ iter = 0 /\ out = <<>>

\* A player has been selected and loaded: read_nbt(path) of main_menu /
\* set_player / load_player_data.
Init ==
    /\ tool \in Tools
    /\ fs \in InitFiles(tool)
    /\ nbt_file = fs.path.v
    /\ pc = "idle"
    /\ rot = 0
    /\ reported = ""
    /\ saves = <<>>
    /\ lastUndo = [pre |-> fs, afterSave |-> FALSE, state |-> "none"]
    /\ faults = 0
    /\ undos = 0
    /\ CodecOff
    /\ HelpersOff

\* Any mutating helper: the tree in memory becomes one that is in no file.
\* Trees are named by numbers: 0 and below are the trees of the files the run
\* starts with, k + 1 is the tree edited after k saves were begun (edits that
\* follow one another without a save between them make one such tree).
Edit ==
    /\ pc = "idle"
    /\ nbt_file # NoTree
    /\ nbt_file # Len(saves) + 1
    /\ nbt_file' = Len(saves) + 1
    /\ reported' = "Edited"
    /\ UNCHANGED <<fs, tool, pc, rot, saves, lastUndo, faults, undos>>
    /\ UNCHANGED <<codecVars, helperVars>>

\* An exception leaves save_nbt / save_player_data.  InfoPanel catches it
\* and logs "Save failed"; run_player_menu and nbt_tool do not catch it.
SaveRaises(fault) ==
    /\ saves' = [saves EXCEPT ![Len(saves)].state = "failed",
                              ![Len(saves)].fault = fault,
                              ![Len(saves)].at = pc]
    /\ IF tool = "nbtviewer"
       THEN reported' = "Save failed" /\ pc' = "idle"
       ELSE reported' = "Traceback" /\ pc' = "exited"

\* A faulty variant of the loop bound, "range(UNDO_LIMIT, 2, -1)": the
\* rotation stops before path.undo1 has been moved to path.undo2.
AfterRotate_StopsEarly(i) == IF i > 2 THEN "rotate" ELSE "snapshot"

\* Where push_undo goes on when the next iteration with something to move
\* is i: the loop runs for i = UNDO_LIMIT .. 2.
AfterRotate(i) == IF i > 1 THEN "rotate" ELSE "snapshot"

\* push_undo, "for i in range(UNDO_LIMIT, 1, -1)": the loop variable of the
\* next iteration, from i downwards, that finds its prev (path.undo(i-1));
\* 1 when there is none and the loop ends.  The iterations between, whose
\* "if os.path.exists(prev)" is false, do nothing.
NextMove(files, i) ==
    LET found == {j \in 2..i : Exists(files.undo[j - 1])}
    IN  IF found = {} THEN 1 ELSE CHOOSE j \in found : \A k \in found : k <= j

\* The Save button / "Save & Exit" / a command of nbt_tool calls save_nbt or
\* save_player_data; save_nbt enters push_undo.
SaveBegin ==
    /\ pc = "idle"
    /\ nbt_file # NoTree
    /\ Len(saves) < MaxSaves
    /\ saves' = Append(saves, [pre |-> fs, fault |-> FALSE, state |-> "running",
                               at |-> ""])
    /\ reported' = ""
    /\ IF HasUndo(tool)
       THEN rot' = NextMove(fs, UNDO_LIMIT) /\ pc' = AfterRotate(rot')
       ELSE pc' = "encode" /\ rot' = rot
    /\ UNCHANGED <<fs, tool, nbt_file, lastUndo, faults, undos>>
    /\ UNCHANGED <<codecVars, helperVars>>

\* A faulty variant of the iteration: the loop runs but renames nothing.
PushUndoRotate_NoShift ==
    /\ pc = "rotate"
    /\ rot' = NextMove(fs, rot - 1)
    /\ pc' = AfterRotate(rot')
    /\ UNCHANGED <<fs, tool, nbt_file, reported, saves, lastUndo, faults, undos>>
    /\ UNCHANGED <<codecVars, helperVars>>

\* push_undo, one iteration of "for i in range(UNDO_LIMIT, 1, -1)" that
\* finds prev: shutil.move(prev, cur) renames path.undo(i-1) over
\* path.undo(i).
PushUndoRotate ==
    /\ pc = "rotate"
    /\ fs' = IF Exists(fs.undo[rot - 1])
             THEN [fs EXCEPT !.undo[rot] = fs.undo[rot - 1],
                             !.undo[rot - 1] = Absent]
             ELSE fs
    /\ rot' = NextMove(fs, rot - 1)
    /\ pc' = AfterRotate(rot')
    /\ UNCHANGED <<tool, nbt_file, reported, saves, lastUndo, faults, undos>>
    /\ UNCHANGED <<codecVars, helperVars>>

\* shutil.move raises.  nbtviewer.py and nbtcore.py swallow it ("except
\* Exception: pass") and go on; mcplayer2.py lets it out.
RenameFails ==
    /\ pc = "rotate"
    /\ Exists(fs.undo[rot - 1])
    /\ faults < MaxFaults
    /\ faults' = faults + 1
    /\ IF tool = "nbtviewer"
       THEN /\ saves' = SetSave("fault", TRUE)
            /\ rot' = NextMove(fs, rot - 1)
            /\ pc' = AfterRotate(rot')
            /\ UNCHANGED reported
       ELSE /\ SaveRaises(TRUE)
            /\ UNCHANGED rot
    /\ UNCHANGED <<fs, tool, nbt_file, lastUndo, undos>>
    /\ UNCHANGED <<codecVars, helperVars>>

\* A faulty variant of the snapshot: path is moved, not copied, to
\* path.undo1 ("shutil.move(path, path.undo1)").
PushUndoCopy_Moves ==
    /\ pc = "snapshot"
    /\ pc' = "backup"
    /\ fs' = IF Exists(fs.path)
             THEN [fs EXCEPT !.undo[1] = fs.path, !.path = Absent]
             ELSE fs
    /\ UNCHANGED <<tool, nbt_file, rot, reported, saves, lastUndo, faults, undos>>
    /\ UNCHANGED <<codecVars, helperVars>>

\* A faulty variant of the snapshot: push_undo returns after the rotation
\* and never copies path to path.undo1.
PushUndoCopy_Skipped ==
    /\ pc = "snapshot"
    /\ pc' = "backup"
    /\ UNCHANGED <<fs, tool, nbt_file, rot, reported, saves, lastUndo, faults, undos>>
    /\ UNCHANGED <<codecVars, helperVars>>

\* push_undo: "if os.path.exists(path): shutil.copy2(path, path.undo1)";
\* copy2 opens the destination for writing, which empties it.
PushUndoCopy ==
    /\ pc = "snapshot"
    /\ IF Exists(fs.path)
       THEN /\ fs' = [fs EXCEPT !.undo[1] = [v |-> fs.path.v, n |-> 0]]
            /\ pc' = IF fs.path.n = 0 THEN "backup" ELSE "snapshot_w"
       ELSE /\ pc' = "backup"
            /\ UNCHANGED fs
    /\ UNCHANGED <<tool, nbt_file, rot, reported, saves, lastUndo, faults, undos>>
    /\ UNCHANGED <<codecVars, helperVars>>

\* copy2 writes the next block of path.undo1.
PushUndoCopyWrite ==
    /\ pc = "snapshot_w"
    /\ fs' = [fs EXCEPT !.undo[1].n = @ + 1]
    /\ pc' = IF fs.undo[1].n + 1 = fs.path.n THEN "backup" ELSE "snapshot_w"
    /\ UNCHANGED <<tool, nbt_file, rot, reported, saves, lastUndo, faults, undos>>
    /\ UNCHANGED <<codecVars, helperVars>>

\* NBTWriter().write_root(nbt_data) at the head of save_player_data.
Encode ==
    /\ pc = "encode"
    /\ pc' = "backup"
    /\ UNCHANGED <<fs, tool, nbt_file, rot, reported, saves, lastUndo,
                   faults, undos>>
    /\ UNCHANGED <<codecVars, helperVars>>

\* A faulty variant of save_player_data: the backup is made before the tree
\* is encoded, so a raising write_root leaves path.bak overwritten.
EncodeRaises_AfterBackup ==
    /\ pc = "encode"
    /\ faults < MaxFaults
    /\ faults' = faults + 1
    /\ SaveRaises(TRUE)
    /\ fs' = [fs EXCEPT !.bak = fs.path]
    /\ UNCHANGED <<tool, nbt_file, rot, lastUndo, undos>>
    /\ UNCHANGED <<codecVars, helperVars>>

\* write_root raises (a value it does not support).
EncodeRaises ==
    /\ pc = "encode"
    /\ faults < MaxFaults
    /\ faults' = faults + 1
    /\ SaveRaises(TRUE)
    /\ UNCHANGED <<fs, tool, nbt_file, rot, lastUndo, undos>>
    /\ UNCHANGED <<codecVars, helperVars>>

\* A faulty variant of backup_file: it returns without copying.
BackupFile_Skipped ==
    /\ pc = "backup"
    /\ pc' = "write"
    /\ UNCHANGED <<fs, tool, nbt_file, rot, reported, saves, lastUndo, faults, undos>>
    /\ UNCHANGED <<codecVars, helperVars>>

\* backup_file: shutil.copy2(path, path.bak) (in save_player_data: open
\* path, open path.bak for writing); a missing path raises.
BackupFile ==
    /\ pc = "backup"
    /\ IF Exists(fs.path)
       THEN /\ fs' = [fs EXCEPT !.bak = [v |-> fs.path.v, n |-> 0]]
            /\ pc' = IF fs.path.n = 0 THEN "write" ELSE "backup_w"
            /\ UNCHANGED <<reported, saves>>
       ELSE /\ SaveRaises(Save.fault)
            /\ UNCHANGED fs
    /\ UNCHANGED <<tool, nbt_file, rot, lastUndo, faults, undos>>
    /\ UNCHANGED <<codecVars, helperVars>>

\* The copy writes the next block of path.bak.
BackupWrite ==
    /\ pc = "backup_w"
    /\ fs' = [fs EXCEPT !.bak.n = @ + 1]
    /\ pc' = IF fs.bak.n + 1 = fs.path.n THEN "write" ELSE "backup_w"
    /\ UNCHANGED <<tool, nbt_file, rot, reported, saves, lastUndo, faults, undos>>
    /\ UNCHANGED <<codecVars, helperVars>>

\* nbt_file.save(path) / gzip.open(dat_file, 'wb'): path is opened for
\* writing, which empties it.
WriteOpen ==
    /\ pc = "write"
    /\ fs' = [fs EXCEPT !.path = [v |-> nbt_file, n |-> 0]]
    /\ pc' = "write_w"
    /\ UNCHANGED <<tool, nbt_file, rot, reported, saves, lastUndo, faults, undos>>
    /\ UNCHANGED <<codecVars, helperVars>>

\* The next block of the new file is written; after the last one the save
\* returns: "Saved" is shown, and run_player_menu of mcplayer2 leaves its loop.
WriteBlock ==
    /\ pc = "write_w"
    /\ fs' = [fs EXCEPT !.path.n = @ + 1]
    /\ IF fs.path.n + 1 = FileLen
       THEN /\ saves' = SetSave("state", "done")
            /\ reported' = "Saved"
            /\ pc' = IF tool = "mcplayer2" THEN "exited" ELSE "idle"
       ELSE UNCHANGED <<saves, reported, pc>>
    /\ UNCHANGED <<tool, nbt_file, rot, lastUndo, faults, undos>>
    /\ UNCHANGED <<codecVars, helperVars>>

SaveIOPcs == {"snapshot", "snapshot_w", "backup", "backup_w", "write", "write_w"}
SavePcs == {"rotate", "encode"} \cup SaveIOPcs

\* The open or the write about to be made by a copy or by the save of the
\* tree fails (no space, no permission, I/O error): the exception leaves
\* save_nbt / save_player_data, the files stay as they are.
SaveIOError ==
    /\ pc \in SaveIOPcs
    /\ Exists(fs.path)
    /\ faults < MaxFaults
    /\ faults' = faults + 1
    /\ SaveRaises(TRUE)
    /\ UNCHANGED <<fs, tool, nbt_file, rot, lastUndo, undos>>
    /\ UNCHANGED <<codecVars, helperVars>>

\* A faulty variant of the Undo button: with no path.undo1 the tree in
\* memory is dropped, as set_player does when a load fails.
UndoPressed_DropsTree ==
    /\ pc = "idle"
    /\ tool = "nbtviewer"
    /\ undos < MaxUndos
    /\ undos' = undos + 1
    /\ IF Exists(fs.undo[1])
       THEN /\ pc' = "undo_copy"
            /\ reported' = ""
            /\ lastUndo' = [pre |-> fs, afterSave |-> reported = "Saved",
                            state |-> "running"]
            /\ UNCHANGED nbt_file
       ELSE /\ pc' = "idle"
            /\ reported' = "No undo1 file available."
            /\ lastUndo' = [pre |-> fs, afterSave |-> reported = "Saved",
                            state |-> "none"]
            /\ nbt_file' = NoTree
    /\ UNCHANGED <<fs, tool, rot, saves, faults>>
    /\ UNCHANGED <<codecVars, helperVars>>

\* The Undo button of InfoPanel (nbtviewer.py, mcplayer/panels.py).
UndoPressed ==
    /\ pc = "idle"
    /\ tool = "nbtviewer"
    /\ undos < MaxUndos
    /\ undos' = undos + 1
    /\ IF Exists(fs.undo[1])
       THEN /\ pc' = "undo_copy"
            /\ reported' = ""
            /\ lastUndo' = [pre |-> fs, afterSave |-> reported = "Saved",
                            state |-> "running"]
       ELSE /\ pc' = "idle"
            /\ reported' = "No undo1 file available."
            /\ lastUndo' = [pre |-> fs, afterSave |-> reported = "Saved",
                            state |-> "none"]
    /\ UNCHANGED <<fs, tool, nbt_file, rot, saves, faults>>
    /\ UNCHANGED <<codecVars, helperVars>>

\* shutil.copy2(undo1, self.player_path): path is opened for writing.
UndoCopy ==
    /\ pc = "undo_copy"
    /\ fs' = [fs EXCEPT !.path = [v |-> fs.undo[1].v, n |-> 0]]
    /\ pc' = IF fs.undo[1].n = 0 THEN "undo_load" ELSE "undo_w"
    /\ UNCHANGED <<tool, nbt_file, rot, reported, saves, lastUndo, faults, undos>>
    /\ UNCHANGED <<codecVars, helperVars>>

UndoCopyWrite ==
    /\ pc = "undo_w"
    /\ fs' = [fs EXCEPT !.path.n = @ + 1]
    /\ pc' = IF fs.path.n + 1 = fs.undo[1].n THEN "undo_load" ELSE "undo_w"
    /\ UNCHANGED <<tool, nbt_file, rot, reported, saves, lastUndo, faults, undos>>
    /\ UNCHANGED <<codecVars, helperVars>>

\* A faulty variant of the Undo button: the file is restored but the tree in
\* memory is not read again from it.
UndoLoad_NoReload ==
    /\ pc = "undo_load"
    /\ pc' = "idle"
    /\ reported' = "Restored .undo1."
    /\ lastUndo' = [lastUndo EXCEPT !.state = "restored"]
    /\ UNCHANGED <<fs, tool, nbt_file, rot, saves, faults, undos>>
    /\ UNCHANGED <<codecVars, helperVars>>

\* self.nbt_file = read_nbt(self.player_path): a file cut short does not
\* decode, the exception is logged as "Undo failed" and nbt_file stays.
UndoLoad ==
    /\ pc = "undo_load"
    /\ pc' = "idle"
    /\ IF IsComplete(fs.path)
       THEN /\ nbt_file' = fs.path.v
            /\ reported' = "Restored .undo1."
            /\ lastUndo' = [lastUndo EXCEPT !.state = "restored"]
       ELSE /\ reported' = "Undo failed"
            /\ lastUndo' = [lastUndo EXCEPT !.state = "failed"]
            /\ UNCHANGED nbt_file
    /\ UNCHANGED <<fs, tool, rot, saves, faults, undos>>
    /\ UNCHANGED <<codecVars, helperVars>>

\* The copy of the Undo button fails.
UndoIOError ==
    /\ pc \in {"undo_copy", "undo_w"}
    /\ faults < MaxFaults
    /\ faults' = faults + 1
    /\ pc' = "idle"
    /\ reported' = "Undo failed"
    /\ lastUndo' = [lastUndo EXCEPT !.state = "failed"]
    /\ UNCHANGED <<fs, tool, nbt_file, rot, saves, undos>>
    /\ UNCHANGED <<codecVars, helperVars>>

\* The program is interrupted (killed, power loss) inside a save or an undo:
\* the files stay as they are, what the process held in memory is gone.
Crash ==
    /\ pc \in SavePcs \cup {"undo_copy", "undo_w", "undo_load"}
    /\ pc' = "crashed"
    /\ IF pc \in SavePcs
       THEN /\ saves' = [saves EXCEPT ![Len(saves)].state = "crashed",
                                      ![Len(saves)].at = pc]
            /\ UNCHANGED lastUndo
       ELSE /\ lastUndo' = [lastUndo EXCEPT !.state = "crashed"]
            /\ UNCHANGED saves
    /\ nbt_file' = NoTree
    /\ rot' = 0
    /\ reported' = ""
    /\ UNCHANGED <<fs, tool, faults, undos>>
    /\ UNCHANGED <<codecVars, helperVars>>

\* A faulty variant of "Exit without saving": the tree is written on the way
\* out.
ExitWithoutSaving_Writes ==
    /\ pc = "idle"
    /\ tool = "mcplayer2"
    /\ nbt_file # NoTree
    /\ pc' = "exited"
    /\ reported' = "Exiting without saving."
    /\ fs' = [fs EXCEPT !.path = Complete(nbt_file)]
    /\ UNCHANGED <<tool, nbt_file, rot, saves, lastUndo, faults, undos>>
    /\ UNCHANGED <<codecVars, helperVars>>

\* Choice "0" of run_player_menu: the loop is left, nothing is written.
ExitWithoutSaving ==
    /\ pc = "idle"
    /\ tool = "mcplayer2"
    /\ nbt_file # NoTree
    /\ pc' = "exited"
    /\ reported' = "Exiting without saving."
    /\ UNCHANGED <<fs, tool, nbt_file, rot, saves, lastUndo, faults, undos>>
    /\ UNCHANGED <<codecVars, helperVars>>

\* The program is started again and the player loaded: read_nbt(path) /
\* load_player_data; a file that does not decode ends it at once.
Restart ==
    /\ pc = "exited"
    /\ IsComplete(fs.path)
    /\ pc' = "idle"
    /\ nbt_file' = fs.path.v
    /\ reported' = ""
    /\ UNCHANGED <<fs, tool, rot, saves, lastUndo, faults, undos>>
    /\ UNCHANGED <<codecVars, helperVars>>

Next ==
    \/ Edit
    \/ SaveBegin
    \/ PushUndoRotate
    \/ RenameFails
    \/ PushUndoCopy
    \/ PushUndoCopyWrite
    \/ Encode
    \/ EncodeRaises
    \/ BackupFile
    \/ BackupWrite
    \/ WriteOpen
    \/ WriteBlock
    \/ SaveIOError
    \/ UndoPressed
    \/ UndoCopy
    \/ UndoCopyWrite
    \/ UndoLoad
    \/ UndoIOError
    \/ Crash
    \/ ExitWithoutSaving
    \/ Restart

Spec == Init /\ [][Next]_vars

----------------------------------------------------------------------------
(* Claims about the save pipeline, checked under Spec *)

\* Where the last save is, or was when it was interrupted.
SaveAt == IF Save.state = "running" THEN pc ELSE Save.at

\* A save by save_nbt is under way or was cut by a crash.
SaveInterrupted ==
    /\ saves # <<>>
    /\ HasUndo(tool)
    /\ Save.state \in {"running", "crashed"}

\* The number of undo files before the last save, and whether they were
\* exactly path.undo1 .. path.undoK.
ChainLen(files) == Cardinality({i \in Slots : Exists(files.undo[i])})
Contiguous(files) ==
    \A i \in Slots : (i > 1 /\ Exists(files.undo[i])) => Exists(files.undo[i - 1])

\* C3: crash safety of one save: if a save (push_undo, backup_file, write)
\* begun on a complete file is interrupted at any point, path or path.undo1
\* holds the complete content path had before the save.
C3_CrashSafety ==
    (SaveInterrupted /\ IsComplete(Save.pre.path)) =>
        \/ fs.path = Save.pre.path
        \/ fs.undo[1] = Save.pre.path

C3_Witness ==
    /\ SaveInterrupted
    /\ IsComplete(Save.pre.path)
    /\ Save.state = "crashed"
    /\ Save.at = "write_w"
    /\ ~IsComplete(fs.path)
    /\ fs.undo[1] = Save.pre.path

\* C4: ordering inside save: path is not modified until the undo rotation
\* and the .bak copy have completed; whenever path already holds new bytes
\* path.undo1 equals the content path had before the save; between the end
\* of push_undo and the write, path and path.undo1 both equal it.
C4_SaveOrdering ==
    SaveInterrupted =>
        /\ SaveAt \in {"rotate", "snapshot", "snapshot_w", "backup", "backup_w",
                       "write"} => fs.path = Save.pre.path
        /\ SaveAt = "write_w" => fs.undo[1] = Save.pre.path
        /\ SaveAt \in {"backup", "backup_w", "write"} =>
              fs.path = Save.pre.path /\ fs.undo[1] = Save.pre.path

C4_Witness ==
    /\ SaveInterrupted
    /\ Save.state = "crashed"
    /\ Save.at = "write"
    /\ Exists(Save.pre.undo[1])
    /\ fs.bak = Save.pre.path
    /\ fs.path = Save.pre.path
    /\ fs.undo[1] = Save.pre.path

\* C5: undo rotation by one save: with a chain path.undo1 .. path.undoK
\* (K <= UNDO_LIMIT) before a save that meets no I/O failure, afterwards the
\* content formerly at undo(i) is at undo(i+1) for 1 <= i < min(K+1, L),
\* undo1 holds what path held, the content formerly at undoL (K = L) is in
\* no undo file, and no undoN with N > L exists.
C5_UndoRotation ==
    (/\ saves # <<>>
     /\ HasUndo(tool)
     /\ Save.state = "done"
     /\ ~Save.fault
     /\ Contiguous(Save.pre)
     /\ ~Exists(Save.pre.undo[UNDO_LIMIT + 1])) =>
        LET L == UNDO_LIMIT
            pre == Save.pre
        IN  \* in a contiguous chain of K <= L files, undo(i) exists iff i <= K
            /\ \A i \in 1..(L - 1) :
                  Exists(pre.undo[i]) => fs.undo[i + 1] = pre.undo[i]
            /\ fs.undo[1] = pre.path
            /\ Exists(pre.undo[L]) => \A i \in Slots : fs.undo[i] # pre.undo[L]
            /\ \A N \in Slots : N > L => ~Exists(fs.undo[N])

C5_Witness ==
    /\ saves # <<>>
    /\ HasUndo(tool)
    /\ Save.state = "done"
    /\ ~Save.fault
    /\ Contiguous(Save.pre)
    /\ ChainLen(Save.pre) = UNDO_LIMIT
    /\ fs.undo[UNDO_LIMIT] = Save.pre.undo[UNDO_LIMIT - 1]
    /\ fs.undo[1] = Save.pre.path

\* C6: a failing save leaves the existing file intact: when a sub-step of a
\* save has failed, the save is reported to the caller as failed and path
\* still holds its pre-save content.
C6_FailingSaveLeavesFile ==
    (/\ saves # <<>>
     /\ Save.fault
     /\ Save.state \in {"done", "failed"}
     /\ reported \in {"Saved", "Save failed", "Traceback"}) =>
        /\ Save.state = "failed"
        /\ fs.path = Save.pre.path

\* C7: single backup: after every successful save (save_nbt and
\* save_player_data alike) path.bak holds exactly the content path had
\* immediately before that save.
C7_SingleBackup ==
    (saves # <<>> /\ Save.state = "done") => fs.bak = Save.pre.path

C7_Witness ==
    /\ saves # <<>>
    /\ Save.state = "done"
    /\ Exists(Save.pre.bak)
    /\ Save.pre.bak # Save.pre.path
    /\ fs.path # Save.pre.path
    /\ fs.bak = Save.pre.path

\* C8: save then undo is the identity on the file: after a successful save
\* followed by the Undo action, path holds the content it had before that
\* save, the tree in memory is the one decoded from it, and no undo file
\* (nor the backup) was changed by the restore.
UndoneAfterSave ==
    /\ lastUndo.state = "restored"
    /\ lastUndo.afterSave
    /\ reported = "Restored .undo1."

TwoSavesFromThree ==
    /\ HasUndo(tool)
    /\ Len(saves) = 2
    /\ \A k \in 1..2 : saves[k].state = "done" /\ ~saves[k].fault
    /\ Contiguous(saves[1].pre)
    /\ Exists(saves[1].pre.undo[3])
    /\ ~Exists(saves[1].pre.undo[4])

\* C9 as claimed: afterwards undo1 holds the state just before the second
\* save, undo2 the state just before the first, undo3 the former undo1, and
\* undo4 and every later undo file are absent.
C9_AsClaimed ==
    TwoSavesFromThree =>
        /\ fs.undo[1] = saves[2].pre.path
        /\ fs.undo[2] = saves[1].pre.path
        /\ fs.undo[3] = saves[1].pre.undo[1]
        /\ \A N \in Slots : N >= 4 => ~Exists(fs.undo[N])

\* C9 as amended: ... undo3 the former undo1, undo4 the former undo2, undo5
\* the former undo3, and undo6 and every later undo file are absent.
C9_TwoSaves ==
    TwoSavesFromThree =>
        /\ fs.undo[1] = saves[2].pre.path
        /\ fs.undo[2] = saves[1].pre.path
        /\ fs.undo[3] = saves[1].pre.undo[1]
        /\ fs.undo[4] = saves[1].pre.undo[2]
        /\ fs.undo[5] = saves[1].pre.undo[3]
        /\ \A N \in Slots : N >= 6 => ~Exists(fs.undo[N])

C9_Witness ==
    /\ TwoSavesFromThree
    /\ Exists(fs.undo[5])
    /\ fs.undo[1] # fs.undo[2]

\* C18: closing without saving discards the edits: in the menu editor no
\* file is written between load and "Save & Exit": every step taken in the
\* menu other than the start of a save, "Exit without saving" included,
\* leaves path, path.bak and every path.undoN as they were at load.
C18_ExitDiscards ==
    [][(tool = "mcplayer2" /\ pc = "idle" /\ pc' \in {"idle", "exited"})
          => fs' = fs]_vars

\* The tree was edited and the editor left without saving.
C18_Witness ==
    /\ tool = "mcplayer2"
    /\ pc = "exited"
    /\ reported = "Exiting without saving."
    /\ nbt_file = Len(saves) + 1
    /\ fs.path.v # nbt_file

SavedAgainAfterFailedWrite ==
    /\ tool = "nbtviewer"
    /\ Len(saves) = 2
    /\ saves[1].state = "failed"
    /\ saves[1].at \in {"write", "write_w"}
    /\ IsComplete(saves[1].pre.path)

\* C28: recoverability over a sequence of saves: once Save has been pressed
\* again after a save whose write step failed part-way, at least one of path
\* and path.undo1 still holds a complete file.
C28_RecoverableAcrossSaves ==
    SavedAgainAfterFailedWrite =>
        IsComplete(fs.path) \/ IsComplete(fs.undo[1])

\* The last save ended in write_root raising.
EncodeFailed ==
    /\ saves # <<>>
    /\ Save.state = "failed"
    /\ Save.at = "encode"

\* C30: save_player_data encodes the whole tree before it touches any file:
\* when the encoding raises, neither path nor path.bak has been created or
\* modified.
C30_EncodeBeforeFiles ==
    EncodeFailed =>
        /\ fs.path = Save.pre.path
        /\ fs.bak = Save.pre.bak
        /\ fs = Save.pre

\* The encoding raised in a save of nbt_lib; path.bak, which differs from
\* path (or does not exist), is as it was.
C30_Witness ==
    /\ EncodeFailed
    /\ tool = "nbt_lib"
    /\ reported = "Traceback"
    /\ fs.bak # fs.path
    /\ fs = Save.pre

----------------------------------------------------------------------------
(* The field edit: handle_write of nbt_tool.py (Python values, saved by     *)
(* NBTWriter) and "Set field" of basics_menu in mcplayer2.py (nbtlib tags). *)
(* Text typed by the user is a sequence of one-character strings.           *)

MaxInput == 3
EditChars == {"2", "0", "5", "-", ".", "a"}
Digits == {"0", "1", "2", "3", "4", "5", "6", "7", "8", "9"}

RECURSIVE Texts(_, _)
Texts(chars, n) ==
    IF n = 0 THEN {<<>>}
    ELSE Texts(chars, n - 1) \cup {Append(t, c) : t \in Texts(chars, n - 1), c \in chars}

DigitVal(c) == CHOOSE n \in 0..9 : ToString(n) = c

RECURSIVE DigitsVal(_)
DigitsVal(t) ==
    IF t = <<>> THEN 0 ELSE DigitsVal(SubSeq(t, 1, Len(t) - 1)) * 10 + DigitVal(t[Len(t)])

AllDigits(t) == \A i \in 1..Len(t) : t[i] \in Digits

\* str.isdigit(): not empty, digits only.
IsDigit(t) == t # <<>> /\ AllDigits(t)

Unsign(t) == IF t # <<>> /\ t[1] = "-" THEN Tail(t) ELSE t
Sign(t) == IF t # <<>> /\ t[1] = "-" THEN -1 ELSE 1

\* int(text): an optional sign and digits; anything else is a ValueError.
IntOk(t) == IsDigit(Unsign(t))
IntOf(t) == Sign(t) * DigitsVal(Unsign(t))

\* float(text): an optional sign, digits with at most one point among them,
\* one digit at least; anything else (of these characters) is a ValueError.
Points(t) == {i \in 1..Len(t) : t[i] = "."}
NoPoints(t) == SelectSeq(t, LAMBDA c : c # ".")
FloatOk(t) ==
    /\ Cardinality(Points(Unsign(t))) <= 1
    /\ IsDigit(NoPoints(Unsign(t)))

\* The number float(text) stands for, as the decimal m / 10^e with no
\* trailing zero in the fraction.
RECURSIVE Decimal(_, _)
Decimal(m, e) == IF e > 0 /\ m % 10 = 0 THEN Decimal(m \div 10, e - 1) ELSE [m |-> m, e |-> e]
FloatOf(t) ==
    LET u == Unsign(t)
        e == IF Points(u) = {} THEN 0 ELSE Len(u) - (CHOOSE i \in Points(u) : TRUE)
    IN  Decimal(Sign(t) * DigitsVal(NoPoints(u)), e)

\* A Python int as the reader and the writer hold it (8 bytes, two's
\* complement), for numbers of up to 23 bits.
PyInt(n) ==
    LET u == IF n >= 0 THEN n ELSE 16777216 + n
        hi == IF n >= 0 THEN 0 ELSE 255
    IN  [t |-> "int",
         v |-> <<hi, hi, hi, hi, hi, u \div 65536, (u \div 256) % 256, u % 256>>]
PyFloat(x) == [t |-> "float", v |-> x]
PyStr(t)   == [t |-> "str", v |-> t]

\* The field as the file holds it before the edit: its kind and its value.
EditKinds == {TAG_Byte, TAG_Short, TAG_Int, TAG_Long, TAG_Float, TAG_Double,
              TAG_String}
OldValue(kind) ==
    IF kind \in {TAG_Byte, TAG_Short, TAG_Int, TAG_Long} THEN PyInt(18)
    ELSE IF kind \in {TAG_Float, TAG_Double} THEN PyFloat(Decimal(5, 0))
    ELSE PyStr(<<"a">>)

\* A tag on disk or an nbtlib tag in memory: a kind and a value.
Tag(kind, val) == [kind |-> kind, val |-> val]

EditTools == {"nbt_tool", "mcplayer2"}

EditInit ==
    /\ \E tl \in EditTools, kind \in EditKinds :
          field = [tool |-> tl, phase |-> "loaded",
                   before |-> Tag(kind, OldValue(kind)),
                   mem |-> Tag(kind, OldValue(kind)),
                   disk |-> Tag(kind, OldValue(kind)),
                   input |-> <<>>]
    /\ root = <<>> /\ lastOp = <<>> /\ parse = <<>>
    /\ server = <<>> /\ session = <<>>
    /\ CodecOff
    /\ SaveOff

\* handle_write: the new text is converted by the Python type of the old
\* value, stored, and the file saved by save_player_data, where write_tag
\* chooses the kind of the field from the new value.  A ValueError of int()
\* or float() is caught: nothing is stored, nothing saved.
HandleWrite ==
    /\ field.tool = "nbt_tool"
    /\ field.phase = "loaded"
    /\ \E new_value_str \in Texts(EditChars, MaxInput) :
          LET old_value == field.mem.val
              ok == IF old_value.t = "int" THEN IntOk(new_value_str)
                    ELSE IF old_value.t = "float" THEN FloatOk(new_value_str)
                    ELSE TRUE
              new_value ==
                    IF old_value.t = "int" THEN PyInt(IntOf(new_value_str))
                    ELSE IF old_value.t = "float" THEN PyFloat(FloatOf(new_value_str))
                    ELSE PyStr(new_value_str)
          IN  IF ok
              THEN field' = [field EXCEPT
                                !.input = new_value_str,
                                !.mem = Tag(TagOf(new_value), new_value),
                                !.disk = Tag(TagOf(new_value), new_value),
                                !.phase = "saved"]
              ELSE field' = [field EXCEPT !.input = new_value_str,
                                          !.phase = "refused"]
    /\ UNCHANGED <<root, lastOp, parse, server, session>>
    /\ UNCHANGED <<codecVars, saveVars>>

\* basics_menu, choice "2": the kind of the new tag is chosen from the text
\* alone: Int when it is all digits, Float when float() accepts it, String
\* otherwise.
BasicsSetField ==
    /\ field.tool = "mcplayer2"
    /\ field.phase = "loaded"
    /\ \E val \in Texts(EditChars, MaxInput) :
          field' = [field EXCEPT
                      !.input = val,
                      !.mem = IF IsDigit(val) THEN Tag(TAG_Int, PyInt(IntOf(val)))
                              ELSE IF FloatOk(val)
                              THEN Tag(TAG_Float, PyFloat(FloatOf(val)))
                              ELSE Tag(TAG_String, PyStr(val)),
                      !.phase = "edited"]
    /\ UNCHANGED <<root, lastOp, parse, server, session>>
    /\ UNCHANGED <<codecVars, saveVars>>

\* "Save & Exit" of run_player_menu: nbt_file.save(path) writes every tag
\* with the kind it has in memory.
EditSave ==
    /\ field.tool = "mcplayer2"
    /\ field.phase = "edited"
    /\ field' = [field EXCEPT !.disk = field.mem, !.phase = "saved"]
    /\ UNCHANGED <<root, lastOp, parse, server, session>>
    /\ UNCHANGED <<codecVars, saveVars>>

\* The file is loaded again (load_player_data / read_nbt): the field has the
\* kind and the value the file holds.
EditReload ==
    /\ field.phase = "saved"
    /\ field' = [field EXCEPT !.mem = field.disk, !.phase = "reloaded"]
    /\ UNCHANGED <<root, lastOp, parse, server, session>>
    /\ UNCHANGED <<codecVars, saveVars>>

EditNext == HandleWrite \/ BasicsSetField \/ EditSave \/ EditReload

EditSpec == EditInit /\ [][EditNext]_vars

\* C13: a field edit keeps the field's kind: after an existing scalar field
\* was set to a new value and the file saved, the field has on reload the
\* kind it had before the edit.
C13_EditKeepsKind ==
    field.phase = "reloaded" => field.mem.kind = field.before.kind

----------------------------------------------------------------------------
(* The inventory helpers.  root is the player's tree: the two item lists,   *)
(* each a sequence of entries.  An entry has an id and may have a Slot      *)
(* (<<s>>) or none (<<>>).  The tools work in turn on the same file, so     *)
(* each operation names the tool that runs it.                              *)

MaxOps == 2
INV_SLOTS == 36
ENDER_SLOTS == 27
ARMOR_SLOT == 36
OFFHAND_SLOT == 40

Entry(s, id) == [Slot |-> <<s>>, id |-> id]
NoSlotEntry(id) == [Slot |-> <<>>, id |-> id]

\* item.get("Slot", -1)
SlotOf(it) == IF it.Slot = <<>> THEN -1 ELSE it.Slot[1]

RECURSIVE EntriesOf(_, _)
\* The entries of the slots of S from lo upwards, in rising order.
EntriesOf(S, lo) ==
    IF \A s \in S : s < lo THEN <<>>
    ELSE IF lo \in S THEN <<Entry(lo, "minecraft:stone")>> \o EntriesOf(S, lo + 1)
    ELSE EntriesOf(S, lo + 1)

\* The lists a player file can hold at the start: slots 0..k-1 less some
\* holes, with or without armor, offhand and an entry that has no Slot.
InvLens == {6, INV_SLOTS}
EnderLens == {2, ENDER_SLOTS}
Holes == {{}, {3}}
InitInventories ==
    {EntriesOf((0..(k - 1)) \ h, 0) \o x :
        k \in InvLens, h \in Holes,
        x \in {<<>>, <<Entry(ARMOR_SLOT, "minecraft:iron_boots"),
                       Entry(OFFHAND_SLOT, "minecraft:shield"),
                       NoSlotEntry("minecraft:stick")>>}}
InitEnderItems == {EntriesOf((0..(k - 1)) \ h, 0) : k \in EnderLens, h \in Holes}

SlotInputs == {-1, 3, ARMOR_SLOT}
ItemIds == {"", "minecraft:diamond"}
ListKeys == {"Inventory", "EnderItems"}

NoSlot == <<>>
Some(s) == <<s>>

Occupied_SkipsFirst(inv) == {SlotOf(inv[i]) : i \in 2..Len(inv)}
Occupied(inv) == {SlotOf(inv[i]) : i \in 1..Len(inv)}

RECURSIVE FirstFree(_, _, _)
\* for s in range(from, to): if s not in occupied: return s; return None
FirstFree(from, to, occupied) ==
    IF from >= to THEN NoSlot
    ELSE IF from \notin occupied THEN Some(from)
    ELSE FirstFree(from + 1, to, occupied)

find_next_free_slot(inv) == FirstFree(0, INV_SLOTS, Occupied(inv))

\* [it for it in inv if int(it.get("Slot", -1)) != slot]
WithoutSlot(inv, slot) == SelectSeq(inv, LAMBDA it : SlotOf(it) # slot)

RECURSIVE WithoutFirst(_, _)
\* The loop of remove_item: the first entry of the slot is removed, then break.
WithoutFirst(inv, slot) ==
    IF inv = <<>> THEN <<>>
    ELSE IF SlotOf(Head(inv)) = slot THEN Tail(inv)
    ELSE <<Head(inv)>> \o WithoutFirst(Tail(inv), slot)

Op(op, tl, key, slot, ret) ==
    [op |-> op, tool |-> tl, list |-> key, slot |-> slot, ret |-> ret,
     pre |-> root,
     prev |-> IF lastOp = <<>> THEN <<>>
              ELSE [op |-> lastOp.op, slot |-> lastOp.slot, ret |-> lastOp.ret],
     n |-> IF lastOp = <<>> THEN 1 ELSE lastOp.n + 1]

OpsLeft == IF lastOp = <<>> THEN TRUE ELSE lastOp.n < MaxOps

InvOff == /\ field = <<>> /\ parse = <<>> /\ server = <<>> /\ session = <<>>
          /\ CodecOff /\ SaveOff
InvFrame == UNCHANGED <<field, parse, server, session, codecVars, saveVars>>

InvInit ==
    /\ \E inv \in InitInventories, ender \in InitEnderItems :
          root = [Inventory |-> inv, EnderItems |-> ender]
    /\ lastOp = <<>>
    /\ InvOff

\* add_item_to_list of mcplayer2.py, called by inventory_menu on Inventory
\* and by ender_menu on EnderItems.  A blank slot asks find_next_free_slot.
AddItemToList ==
    /\ root # <<>> /\ OpsLeft
    /\ \E key \in ListKeys, slot_input \in {NoSlot} \cup {Some(s) : s \in SlotInputs},
          item_id \in ItemIds :
          LET inv == root[key]
              found == find_next_free_slot(inv)
              slot == IF slot_input = NoSlot THEN found ELSE slot_input
          IN  IF slot = NoSlot \/ item_id = ""
              THEN /\ lastOp' = Op("add_refused", "mcplayer2", key, slot_input, slot)
                   /\ root' = root
              ELSE /\ lastOp' = Op("add", "mcplayer2", key, slot_input, slot)
                   /\ root' = [root EXCEPT
                         ![key] = Append(WithoutSlot(inv, slot[1]),
                                         Entry(slot[1], item_id))]
    /\ InvFrame

\* add_item of mcplayer.py: the entry is appended to Inventory.
AddItem ==
    /\ root # <<>> /\ OpsLeft
    /\ \E slot \in SlotInputs, item_id \in ItemIds \ {""} :
          /\ lastOp' = Op("add", "mcplayer", "Inventory", Some(slot), Some(slot))
          /\ root' = [root EXCEPT
                         !.Inventory = Append(root.Inventory, Entry(slot, item_id))]
    /\ InvFrame

\* The Add button of the inventory panel (panels.py).
InvAdd ==
    /\ root # <<>> /\ OpsLeft
    /\ \E slot_input \in {NoSlot} \cup {Some(s) : s \in SlotInputs},
          item_id \in ItemIds :
          LET inv == root.Inventory
              next_slot == find_next_free_slot(inv)
              slot_num == IF slot_input = NoSlot THEN next_slot ELSE slot_input
          IN  IF slot_num = NoSlot \/ item_id = ""
              THEN /\ lastOp' = Op("add_refused", "panels", "Inventory", slot_input, slot_num)
                   /\ root' = root
              ELSE /\ lastOp' = Op("add", "panels", "Inventory", slot_input, slot_num)
                   /\ root' = [root EXCEPT
                         !.Inventory = Append(WithoutSlot(inv, slot_num[1]),
                                              Entry(slot_num[1], item_id))]
    /\ InvFrame

\* handle_give_item of nbt_tool.py, reached from the Inventory view and from
\* the Ender Chest view of player_menu; both call it with two arguments, so
\* is_enderchest has its default.
is_enderchest == FALSE

HandleGiveItem ==
    /\ root # <<>> /\ OpsLeft
    /\ \E view \in ListKeys, item_id \in ItemIds \ {""} :
          LET inv_key == IF is_enderchest THEN "EnderItems" ELSE "Inventory"
              inventory == root[inv_key]
              max_slot == IF is_enderchest THEN ENDER_SLOTS ELSE INV_SLOTS
              empty_slot == FirstFree(0, max_slot, Occupied(inventory))
          IN  IF empty_slot = NoSlot
              THEN /\ lastOp' = Op("add_refused", "nbt_tool", view, NoSlot, NoSlot)
                   /\ root' = root
              ELSE /\ lastOp' = Op("add", "nbt_tool", view, NoSlot, empty_slot)
                   /\ root' = [root EXCEPT
                         ![inv_key] = Append(inventory, Entry(empty_slot[1], item_id))]
    /\ InvFrame

\* remove_item_from_list of mcplayer2.py (the slot must be all digits) and
\* the Remove button of the inventory panel (any int).
RemoveItemFromList ==
    /\ root # <<>> /\ OpsLeft
    /\ \E tl \in {"mcplayer2", "panels"}, key \in ListKeys, slot \in SlotInputs :
          /\ tl = "panels" => key = "Inventory"
          /\ tl = "mcplayer2" => slot >= 0
          /\ lastOp' = Op("remove", tl, key, Some(slot), NoSlot)
          /\ root' = [root EXCEPT ![key] = WithoutSlot(root[key], slot)]
    /\ InvFrame

\* remove_item of mcplayer.py.
RemoveItem ==
    /\ root # <<>> /\ OpsLeft
    /\ \E slot \in SlotInputs :
          /\ lastOp' = Op("remove", "mcplayer", "Inventory", Some(slot), NoSlot)
          /\ root' = [root EXCEPT !.Inventory = WithoutFirst(root.Inventory, slot)]
    /\ InvFrame

\* "Auto-find next free slot" of inventory_menu and the Auto-slot button.
FindNextFreeSlot ==
    /\ root # <<>> /\ OpsLeft
    /\ \E tl \in {"mcplayer2", "panels"} :
          /\ lastOp' = Op("find", tl, "Inventory", NoSlot,
                          find_next_free_slot(root.Inventory))
          /\ root' = root
    /\ InvFrame

InvNext ==
    \/ AddItemToList
    \/ AddItem
    \/ InvAdd
    \/ HandleGiveItem
    \/ RemoveItemFromList
    \/ RemoveItem
    \/ FindNextFreeSlot

InvSpec == InvInit /\ [][InvNext]_vars

\* ---- the claims about the inventory helpers ----

SlotsOf(inv) == {SlotOf(inv[i]) : i \in {j \in 1..Len(inv) : inv[j].Slot # <<>>}}
UniqueSlots(inv) ==
    \A i, j \in 1..Len(inv) :
        (i # j /\ inv[i].Slot # <<>> /\ inv[j].Slot # <<>>) => inv[i].Slot # inv[j].Slot

\* C14: unique slots: from lists with at most one entry per Slot value, after
\* any sequence of add and remove operations each list still has at most one
\* entry per Slot value.
C14_UniqueSlots ==
    root # <<>> => UniqueSlots(root.Inventory) /\ UniqueSlots(root.EnderItems)

\* The list an operation searched for a free slot, and the size of the range.
Searched(o) == IF o.tool = "nbt_tool" THEN o.pre.Inventory ELSE o.pre[o.list]
DidSearch(o) ==
    \/ o.op = "find"
    \/ o.op \in {"add", "add_refused"} /\ o.slot = NoSlot

FreeSlots(inv, N) == {s \in 0..(N - 1) : \A i \in 1..Len(inv) : inv[i].Slot # <<s>>}
InRange(inv, N) ==
    SelectSeq(inv, LAMBDA it : it.Slot # <<>> /\ it.Slot[1] \in 0..(N - 1))

\* C15: the free-slot search over 0..N-1 returns the smallest slot of the range
\* that no entry uses as its Slot, and None exactly when every slot of the
\* range is occupied; entries outside the range or without a Slot do not
\* change the result; for occupied slots {0,1,2,4,5} it returns 3.
C15_FreeSlot ==
    (IF lastOp = <<>> THEN FALSE ELSE DidSearch(lastOp)) =>
        LET inv == Searched(lastOp)
            free == FreeSlots(inv, INV_SLOTS)
        IN  /\ (lastOp.ret = NoSlot) <=> (free = {})
            /\ lastOp.ret # NoSlot =>
                  /\ lastOp.ret[1] \in free
                  /\ \A s \in free : lastOp.ret[1] <= s
            /\ lastOp.ret = find_next_free_slot(InRange(inv, INV_SLOTS))
            /\ SlotsOf(inv) = {0, 1, 2, 4, 5} => lastOp.ret = Some(3)

\* Slots {0,1,2,4,5} gave 3, the item was added there, and the next search
\* returns 6.
C15_Witness ==
    IF lastOp = <<>> THEN FALSE
    ELSE /\ lastOp.op = "find"
         /\ lastOp.ret = Some(6)
         /\ lastOp.prev # <<>>
         /\ lastOp.prev = [op |-> "add", slot |-> NoSlot, ret |-> Some(3)]
         /\ SlotsOf(lastOp.pre.Inventory) = 0..5

\* C16: adding from the ender-chest menu with automatic slot appends exactly
\* one entry to EnderItems with a Slot in 0..26 and leaves Inventory as it
\* was; when slots 0..26 of EnderItems are all occupied, nothing changes.
C16_EnderAdd ==
    (IF lastOp = <<>> THEN FALSE
     ELSE /\ lastOp.op \in {"add", "add_refused"}
          /\ lastOp.list = "EnderItems"
          /\ lastOp.slot = NoSlot
          /\ lastOp.op = "add" \/ lastOp.ret = NoSlot) =>
        IF FreeSlots(lastOp.pre.EnderItems, ENDER_SLOTS) = {}
        THEN root = lastOp.pre
        ELSE /\ root.Inventory = lastOp.pre.Inventory
             /\ Len(root.EnderItems) = Len(lastOp.pre.EnderItems) + 1
             /\ SubSeq(root.EnderItems, 1, Len(lastOp.pre.EnderItems))
                   = lastOp.pre.EnderItems
             /\ root.EnderItems[Len(root.EnderItems)].Slot # <<>>
             /\ root.EnderItems[Len(root.EnderItems)].Slot[1] \in 0..(ENDER_SLOTS - 1)

\* C17: removing at slot s deletes the entry whose Slot is s and no other: at
\* most one entry goes, and the remaining entries keep content and order.
C17_RemoveAtSlot ==
    (IF lastOp = <<>> THEN FALSE ELSE lastOp.op = "remove") =>
        LET before == lastOp.pre[lastOp.list]
            after == root[lastOp.list]
            s == lastOp.slot[1]
        IN  /\ Len(before) - Len(after) \in {0, 1}
            /\ after = SelectSeq(before, LAMBDA it : it.Slot # <<s>>)
            /\ \A key \in ListKeys \ {lastOp.list} : root[key] = lastOp.pre[key]

----------------------------------------------------------------------------
(* The item-spec parser of nbt_lib.py: parse_give_command and the scanners  *)
(* of parse_nbt_components, parse_nbt_compound and parse_nbt_list.  Texts   *)
(* are sequences of one-character strings.                                  *)

MaxScan == 5
ScanChars == {"a", ",", "'", "\"", "\\", "{", "}"}

Chars(s) == [i \in 1..Len(s) |-> SubSeq(s, i, i)]

RECURSIVE Str(_)
Str(t) == IF t = <<>> THEN "" ELSE t[1] \o Str(Tail(t))

Space == " "

RECURSIVE LStrip(_)
LStrip(t) == IF t # <<>> /\ Head(t) = Space THEN LStrip(Tail(t)) ELSE t
RECURSIVE RStrip(_)
RStrip(t) ==
    IF t # <<>> /\ t[Len(t)] = Space THEN RStrip(SubSeq(t, 1, Len(t) - 1)) ELSE t
\* str.strip()
Strip(t) == LStrip(RStrip(t))

\* str.startswith / str.endswith
StartsWith(t, p) == Len(t) >= Len(p) /\ SubSeq(t, 1, Len(p)) = p
EndsWith(t, p) == Len(t) >= Len(p) /\ SubSeq(t, Len(t) - Len(p) + 1, Len(t)) = p

Positions(t, c) == {i \in 1..Len(t) : t[i] = c}
Has(t, c) == Positions(t, c) # {}
First(S) == CHOOSE i \in S : \A j \in S : i <= j
Last(S)  == CHOOSE i \in S : \A j \in S : j <= i

\* str.split(c, 1) for a text that holds c
SplitAt(t, c) ==
    LET i == First(Positions(t, c))
    IN  <<SubSeq(t, 1, i - 1), SubSeq(t, i + 1, Len(t))>>

\* str.split(None, 1): the first word and the rest, if there is a rest.
SplitOnce(t) ==
    LET u == LStrip(t)
    IN  IF u = <<>> THEN <<>>
        ELSE IF ~Has(u, Space) THEN <<u>>
        ELSE LET i == First(Positions(u, Space))
                 rest == LStrip(SubSeq(u, i, Len(u)))
             IN  IF rest = <<>> THEN <<SubSeq(u, 1, i - 1)>>
                 ELSE <<SubSeq(u, 1, i - 1), rest>>

RECURSIVE Split(_)
\* str.split(): the words of the text.
Split(t) ==
    LET p == SplitOnce(t)
    IN  IF Len(p) < 2 THEN IF p = <<>> THEN <<>> ELSE <<RStrip(p[1])>>
        ELSE <<p[1]>> \o Split(p[2])

Upper == Chars("ABCDEFGHIJKLMNOPQRSTUVWXYZ")
Lower == Chars("abcdefghijklmnopqrstuvwxyz")
\* str.lower()
ToLower(t) ==
    [i \in 1..Len(t) |->
        IF Has(Upper, t[i]) THEN Lower[First(Positions(Upper, t[i]))] ELSE t[i]]

\* Python values the parser returns.
PStr(t)   == [t |-> "str", v |-> Str(t)]
PNum(n)   == [t |-> "int", v |-> n]
PDec(x)   == [t |-> "float", v |-> x]
PBool(b)  == [t |-> "bool", v |-> b]
PDict(kv) == [t |-> "dict", v |-> kv]
PList(l)  == [t |-> "list", v |-> l]

\* d[key] = val on a dict kept as a sequence of <<key, value>> pairs.
Put(d, key, val) ==
    IF \E i \in 1..Len(d) : d[i][1] = key
    THEN [i \in 1..Len(d) |-> IF d[i][1] = key THEN <<key, val>> ELSE d[i]]
    ELSE Append(d, <<key, val>>)

\* The comma scanner.  parse_nbt_components keeps an escape flag for the
\* character after a backslash (escapes = TRUE); parse_nbt_compound and
\* parse_nbt_list have none.  Either quote character flips in_string.  seps
\* records where the text was cut.
ScanStart ==
    [parts |-> <<>>, current |-> <<>>, depth |-> 0, in_string |-> FALSE,
     escape |-> FALSE, seps |-> {}]

RECURSIVE Scan(_, _, _, _)
Scan(t, i, st, escapes) ==
    IF i > Len(t) THEN st
    ELSE LET char == t[i]
             keep == [st EXCEPT !.current = Append(@, char)]
             nxt ==
               IF escapes /\ st.escape THEN [keep EXCEPT !.escape = FALSE]
               ELSE IF escapes /\ char = "\\" THEN [keep EXCEPT !.escape = TRUE]
               ELSE IF char \in {"\"", "'"} THEN [keep EXCEPT !.in_string = ~@]
               ELSE IF ~st.in_string
               THEN IF char \in {"{", "["} THEN [keep EXCEPT !.depth = @ + 1]
                    ELSE IF char \in {"}", "]"} THEN [keep EXCEPT !.depth = @ - 1]
                    ELSE IF char = "," /\ st.depth = 0
                    THEN [st EXCEPT !.parts = Append(@, Strip(st.current)),
                                    !.current = <<>>,
                                    !.seps = @ \cup {i}]
                    ELSE keep
               ELSE keep
         IN  Scan(t, i + 1, nxt, escapes)

\* The parts the scanner hands on, and the places of the cuts.
Cut(t, escapes) ==
    LET st == Scan(t, 1, ScanStart, escapes)
    IN  [parts |-> IF st.current # <<>> THEN Append(st.parts, Strip(st.current))
                   ELSE st.parts,
         seps |-> st.seps]

\* json.loads on the text between the quotes: a JSON string with no escape in
\* it gives its content, a JSON integer its number; other texts that do not
\* begin like a JSON document raise, and the caller keeps the text.  A text
\* that begins with { or [ stands for itself here (no value of this model is
\* drawn from such a text).
JsonLoads(t) ==
    LET u == Strip(t)
    IN  IF /\ Len(u) >= 2 /\ u[1] = "\"" /\ u[Len(u)] = "\""
           /\ ~Has(SubSeq(u, 2, Len(u) - 1), "\"")
           /\ ~Has(u, "\\")
        THEN PStr(SubSeq(u, 2, Len(u) - 1))
        ELSE IF IsDigit(Unsign(u)) /\ (Len(Unsign(u)) = 1 \/ Unsign(u)[1] # "0")
        THEN PNum(IntOf(u))
        ELSE PStr(t)

RECURSIVE Replace(_, _, _)
\* str.replace(old, new) for a two-character old
Replace(t, old, new) ==
    IF Len(t) < Len(old) THEN t
    ELSE IF SubSeq(t, 1, Len(old)) = old
    THEN new \o Replace(SubSeq(t, Len(old) + 1, Len(t)), old, new)
    ELSE <<Head(t)>> \o Replace(Tail(t), old, new)

\* key.strip().strip('"\'')
RECURSIVE StripQuotes(_)
StripQuotes(t) ==
    IF t # <<>> /\ Head(t) \in {"\"", "'"} THEN StripQuotes(Tail(t))
    ELSE IF t # <<>> /\ t[Len(t)] \in {"\"", "'"}
    THEN StripQuotes(SubSeq(t, 1, Len(t) - 1))
    ELSE t

RECURSIVE parse_nbt_value(_)
RECURSIVE parse_nbt_compound(_)
RECURSIVE parse_nbt_list(_)
RECURSIVE CompoundParts(_, _)
RECURSIVE ListParts(_)

parse_nbt_value(v) ==
    LET value == Strip(v)
    IN  IF \/ StartsWith(value, <<"\"">>) /\ EndsWith(value, <<"\"">>)
           \/ StartsWith(value, <<"'">>) /\ EndsWith(value, <<"'">>)
        THEN JsonLoads(Replace(Replace(SubSeq(value, 2, Len(value) - 1),
                                       <<"\\", "'">>, <<"'">>),
                               <<"\\", "\"">>, <<"\"">>))
        ELSE IF ToLower(value) = Chars("true") THEN PBool(TRUE)
        ELSE IF ToLower(value) = Chars("false") THEN PBool(FALSE)
        ELSE IF Has(value, ".") /\ FloatOk(value) THEN PDec(FloatOf(value))
        ELSE IF ~Has(value, ".") /\ IntOk(value) THEN PNum(IntOf(value))
        ELSE IF StartsWith(value, <<"{">>) /\ EndsWith(value, <<"}">>)
        THEN parse_nbt_compound(SubSeq(value, 2, Len(value) - 1))
        ELSE IF StartsWith(value, <<"[">>) /\ EndsWith(value, <<"]">>)
        THEN parse_nbt_list(SubSeq(value, 2, Len(value) - 1))
        ELSE PStr(value)

CompoundParts(parts, acc) ==
    IF parts = <<>> THEN acc
    ELSE LET part == Head(parts)
         IN  IF Has(part, ":")
             THEN CompoundParts(Tail(parts),
                     Put(acc, Str(StripQuotes(Strip(SplitAt(part, ":")[1]))),
                         parse_nbt_value(Strip(SplitAt(part, ":")[2]))))
             ELSE CompoundParts(Tail(parts), acc)

parse_nbt_compound(c) ==
    LET content == Strip(c)
    IN  IF content = <<>> THEN PDict(<<>>)
        ELSE PDict(CompoundParts(Cut(content, FALSE).parts, <<>>))

ListParts(parts) ==
    IF parts = <<>> THEN <<>>
    ELSE <<parse_nbt_value(Head(parts))>> \o ListParts(Tail(parts))

parse_nbt_list(c) ==
    LET content == Strip(c)
    IN  IF content = <<>> THEN PList(<<>>)
        ELSE PList(ListParts(Cut(content, FALSE).parts))

RECURSIVE ComponentParts(_, _)
ComponentParts(parts, components) ==
    IF parts = <<>> THEN components
    ELSE LET part == Head(parts)
         IN  IF Has(part, "=")
             THEN LET key == Strip(SplitAt(part, "=")[1])
                      value == Strip(SplitAt(part, "=")[2])
                      nskey == IF ~Has(key, ":") THEN Chars("minecraft:") \o key
                               ELSE key
                  IN  ComponentParts(Tail(parts),
                                     Put(components, Str(nskey), parse_nbt_value(value)))
             ELSE ComponentParts(Tail(parts), components)

parse_nbt_components(s) ==
    LET nbt_str == Strip(s)
    IN  IF nbt_str = <<>> THEN <<>>
        ELSE ComponentParts(Cut(nbt_str, TRUE).parts, <<>>)

Parsed(item_id, count, components) ==
    [raised |-> FALSE, item_id |-> Str(item_id), count |-> count,
     components |-> components]
ValueError == [raised |-> TRUE, item_id |-> "", count |-> 0, components |-> <<>>]

\* The text after "give" and after the first word was taken off (lines
\* 317-325): the first word goes when it is a selector, and in the elif
\* branch when it is not.
AfterSelector(cmd) ==
    LET c1 == Strip(cmd)
        c2 == IF StartsWith(c1, Chars("give")) THEN Strip(SubSeq(c1, 5, Len(c1)))
              ELSE c1
        parts == SplitOnce(c2)
    IN  IF Len(parts) > 1 /\ StartsWith(parts[1], <<"@">>) THEN parts[2]
        ELSE IF Len(parts) > 1 THEN parts[2]
        ELSE c2

parse_give_command(cmd) ==
    LET give_cmd == AfterSelector(cmd)
    IN  IF ~Has(give_cmd, "[")
        THEN LET parts == Split(give_cmd)
             IN  IF Len(parts) > 1
                 THEN IF IntOk(parts[2]) THEN Parsed(parts[1], IntOf(parts[2]), <<>>)
                      ELSE ValueError
                 ELSE Parsed(parts[1], 1, <<>>)
        ELSE LET id0 == Strip(SplitAt(give_cmd, "[")[1])
                 nbt0 == <<"[">> \o SplitAt(give_cmd, "[")[2]
                 item_id == IF ~Has(id0, ":") THEN Chars("minecraft:") \o id0 ELSE id0
                 balanced == Cardinality(Positions(nbt0, "["))
                               = Cardinality(Positions(nbt0, "]"))
                 closing == IF Has(nbt0, "]") THEN Last(Positions(nbt0, "]")) ELSE 0
                 remainder == Strip(SubSeq(nbt0, closing + 1, Len(nbt0)))
                 counted == balanced /\ IsDigit(remainder)
                 count == IF counted THEN IntOf(remainder) ELSE 1
                 nbt_part == IF counted THEN SubSeq(nbt0, 1, closing) ELSE nbt0
             IN  Parsed(item_id, count,
                        parse_nbt_components(SubSeq(nbt_part, 2, Len(nbt_part) - 1)))

\* The commands given to parse_give_command.
SwordSpec == "diamond_sword[custom_name='\"Sword\"',enchantments={sharpness:5}] 2"
GiveCommands ==
    {SwordSpec,
     "give @p " \o SwordSpec,
     "@p " \o SwordSpec,
     "give " \o SwordSpec,
     "diamond_sword[enchantments={sharpness:5}]",
     "diamond_sword[custom_name='a b'] 2",
     "diamond_sword[lore=['a,b'],unbreakable={}] 3",
     "give @a diamond_sword[lore=['a,b'],unbreakable={}] 3",
     "diamond 3", "give diamond 3", "give @a diamond 3", "@a diamond 3",
     "diamond", "give @a minecraft:stone", "give @a stone x"}

ScanFns == {"parse_nbt_components", "parse_nbt_compound", "parse_nbt_list"}

ParseInit ==
    /\ \/ \E cmd \in GiveCommands :
             parse = [phase |-> "input", fn |-> "parse_give_command", text |-> Chars(cmd)]
       \/ \E fn \in ScanFns, t \in Texts(ScanChars, MaxScan) :
             parse = [phase |-> "input", fn |-> fn, text |-> t]
    /\ field = <<>> /\ root = <<>> /\ lastOp = <<>>
    /\ server = <<>> /\ session = <<>>
    /\ CodecOff
    /\ SaveOff

ParseFrame == UNCHANGED <<field, root, lastOp, server, session, codecVars, saveVars>>

ParseGiveCommand ==
    /\ parse # <<>>
    /\ parse.phase = "input"
    /\ parse.fn = "parse_give_command"
    /\ parse' = [phase |-> "done", fn |-> parse.fn, text |-> parse.text,
                 out |-> parse_give_command(parse.text)]
    /\ ParseFrame

\* The splitting loop of one of the three parsers, run on the text.
SplitParts ==
    /\ parse # <<>>
    /\ parse.phase = "input"
    /\ parse.fn \in ScanFns
    /\ parse' = [phase |-> "done", fn |-> parse.fn, text |-> parse.text,
                 out |-> Cut(Strip(parse.text), parse.fn = "parse_nbt_components")]
    /\ ParseFrame

ParseNext == ParseGiveCommand \/ SplitParts

ParseSpec == ParseInit /\ [][ParseNext]_vars

\* ---- the claims about the parser ----

ParseDone(fns) ==
    IF parse = <<>> THEN FALSE ELSE parse.phase = "done" /\ parse.fn \in fns

FirstWord(t) == SplitOnce(t)[1]

\* C19: parse_give_command on the sword spec with components and a trailing
\* count returns id minecraft:diamond_sword, count 2 and both components; a
\* first token that does not start with '@' is the item, never dropped.
C19_GiveParse ==
    ParseDone({"parse_give_command"}) =>
        /\ parse.text = Chars(SwordSpec) =>
              parse.out = [raised |-> FALSE, item_id |-> "minecraft:diamond_sword",
                           count |-> 2,
                           components |->
                               <<(<<"minecraft:custom_name", PStr(Chars("Sword"))>>),
                                 (<<"minecraft:enchantments",
                                    PDict(<<(<<"sharpness", PNum(5)>>)>>)>>)>>]
        /\ (~StartsWith(parse.text, Chars("give")) /\ ~StartsWith(parse.text, <<"@">>)
            /\ ~parse.out.raised) =>
              LET word == FirstWord(parse.text)
                  id == IF Has(word, "[") THEN SplitAt(word, "[")[1] ELSE word
              IN  parse.out.item_id \in {Str(id), "minecraft:" \o Str(id)}

\* What the text really holds: a string opens at a quote character met
\* outside a string and closes at the next occurrence of the same character
\* that no backslash escapes; braces and brackets outside strings nest.
\* inside collects the places that lie in a string or in a nesting.
LexStart == [quote |-> "", escape |-> FALSE, depth |-> 0, inside |-> {}, ok |-> TRUE]

RECURSIVE Lex(_, _, _)
Lex(t, i, st) ==
    IF i > Len(t) THEN st
    ELSE LET char == t[i]
             mark == [st EXCEPT !.inside = @ \cup {i}]
             nxt ==
               IF st.quote # ""
               THEN IF st.escape THEN [mark EXCEPT !.escape = FALSE]
                    ELSE IF char = "\\" THEN [mark EXCEPT !.escape = TRUE]
                    ELSE IF char = st.quote THEN [mark EXCEPT !.quote = ""]
                    ELSE mark
               ELSE LET at == IF st.depth > 0 THEN mark ELSE st
                    IN  IF char \in {"\"", "'"} THEN [at EXCEPT !.quote = char]
                        ELSE IF char \in {"{", "["} THEN [at EXCEPT !.depth = @ + 1]
                        ELSE IF char \in {"}", "]"}
                        THEN [at EXCEPT !.depth = @ - 1, !.ok = st.ok /\ st.depth > 0]
                        ELSE at
         IN  Lex(t, i + 1, nxt)

\* Every string of the text is closed and every brace matched.
WellFormed(t) ==
    LET st == Lex(t, 1, LexStart)
    IN  st.quote = "" /\ st.depth = 0 /\ st.ok /\ ~st.escape
Inside(t) == Lex(t, 1, LexStart).inside

\* C20: the scanner is string- and nesting-aware: a ',' that lies inside a
\* quoted string (which may hold the other quote character or an escaped
\* quote) or inside {...} or [...] is never taken as a separator.
C20_ScannerAware ==
    (ParseDone(ScanFns) /\ WellFormed(Strip(parse.text))) =>
        parse.out.seps \cap Inside(Strip(parse.text)) = {}

\* C21: default namespace: for every input parse_give_command accepts, with
\* or without components and count, the item id returned has a namespace
\* (minecraft: when the input gave none) and so has every component key.
C21_DefaultNamespace ==
    (ParseDone({"parse_give_command"}) /\ ~parse.out.raised) =>
        /\ Has(Chars(parse.out.item_id), ":")
        /\ \A i \in 1..Len(parse.out.components) :
              Has(Chars(parse.out.components[i][1]), ":")

----------------------------------------------------------------------------
(* Player lookup and enumeration: load_usercache, get_player_name,          *)
(* get_player_uuid, list_players and load_player_data of nbt_lib.py, and    *)
(* load_usercache / list_players of nbtcore.py and mcplayer.py.  server     *)
(* holds the stems of the .dat files of playerdata and usercache.json.      *)

\* str.lower() and str.replace('-', '') on strings
LowerS(s) == Str(ToLower(Chars(s)))
NoDash(s) == Str(SelectSeq(Chars(s), LAMBDA c : c # "-"))

\* The .dat files the directory may hold (names without ".dat").
Stems == {"1a-2b", "1a2b", "3c-4d"}
\* What the user types to name a player.
Queries == {"1a-2b", "1a2b", "1A-2B", "1A2B", "1a-2b.dat", "3C4D", "9z",
            "Steve", "steve", "nobody"}

\* usercache.json: missing, not JSON, or a JSON list.  An entry is an
\* object, with or without the keys name and uuid (<<>> when absent), or
\* something that is no object.
Obj(name, uuid) == [obj |-> TRUE, name |-> name, uuid |-> uuid]
NoObj == [obj |-> FALSE, name |-> <<>>, uuid |-> <<>>]
UserCaches ==
    {[kind |-> "missing", entries |-> <<>>],
     [kind |-> "invalid", entries |-> <<>>],
     [kind |-> "list", entries |-> <<Obj(<<>>, <<>>)>>],
     [kind |-> "list", entries |-> <<Obj(<<"Steve">>, <<>>)>>],
     [kind |-> "list", entries |-> <<NoObj>>],
     [kind |-> "list", entries |-> <<Obj(<<"Steve">>, <<"1A-2B">>)>>],
     [kind |-> "list", entries |-> <<Obj(<<"Alex">>, <<"3c-4d">>),
                                      Obj(<<"Steve">>, <<"1a-2b">>)>>]}

Returns(val) == [raised |-> FALSE, val |-> val]
Raises(exc) == [raised |-> TRUE, val |-> exc]

\* dict.get(key, '')
Get(opt) == IF opt = <<>> THEN "" ELSE opt[1]

\* nbt_lib.load_usercache: only FileNotFoundError is caught.
load_usercache(uc) ==
    IF uc.kind = "missing" THEN Returns(<<>>)
    ELSE IF uc.kind = "invalid" THEN Raises("JSONDecodeError")
    ELSE Returns(uc.entries)

RECURSIVE NameLoop(_, _)
\* the loop of get_player_name
NameLoop(entries, uuid_str) ==
    IF entries = <<>> THEN Returns("Unknown")
    ELSE IF ~Head(entries).obj THEN Raises("AttributeError")
    ELSE IF NoDash(LowerS(Get(Head(entries).uuid))) = uuid_str
    THEN Returns(IF Head(entries).name = <<>> THEN "Unknown" ELSE Head(entries).name[1])
    ELSE NameLoop(Tail(entries), uuid_str)

get_player_name(uc, uuid) ==
    LET usercache == load_usercache(uc)
    IN  IF usercache.raised THEN usercache
        ELSE NameLoop(usercache.val, LowerS(NoDash(uuid)))

RECURSIVE UuidLoop(_, _)
\* the loop of get_player_uuid; None is <<>>
UuidLoop(entries, name) ==
    IF entries = <<>> THEN Returns(<<>>)
    ELSE IF ~Head(entries).obj THEN Raises("AttributeError")
    ELSE IF LowerS(Get(Head(entries).name)) = LowerS(name)
    THEN Returns(<<LowerS(Get(Head(entries).uuid))>>)
    ELSE UuidLoop(Tail(entries), name)

get_player_uuid(uc, name) ==
    LET usercache == load_usercache(uc)
    IN  IF usercache.raised THEN usercache ELSE UuidLoop(usercache.val, name)

NoPlayer == [file |-> <<>>, name |-> <<>>]

\* load_player_data: the file names tried in turn.  The directory compares
\* names exactly (a case-sensitive file system).
load_player_data(files, uc, identifier) ==
    LET id == Chars(identifier)
    IN  IF EndsWith(id, Chars(".dat"))
        THEN LET stem == Str(SubSeq(id, 1, Len(id) - 4))
             IN  IF stem \notin files THEN Returns(NoPlayer)
                 ELSE LET nm == get_player_name(uc, stem)
                      IN  IF nm.raised THEN nm
                          ELSE Returns([file |-> <<stem>>, name |-> <<nm.val>>])
        ELSE LET uuid_clean == LowerS(NoDash(identifier))
                 first == IF identifier \in files THEN <<identifier>>
                          ELSE IF uuid_clean \in files THEN <<uuid_clean>>
                          ELSE <<>>
                 byname == IF first = <<>> THEN get_player_uuid(uc, identifier)
                           ELSE Returns(<<>>)
                 dat_file == IF first # <<>> THEN first
                             ELSE IF byname.raised THEN <<>>
                             ELSE IF byname.val # <<>> /\ byname.val[1] # ""
                             THEN byname.val
                             ELSE <<uuid_clean>>
             IN  IF byname.raised THEN byname
                 ELSE IF dat_file[1] \notin files THEN Returns(NoPlayer)
                 ELSE LET nm == get_player_name(uc, dat_file[1])
                      IN  IF nm.raised THEN nm
                          ELSE Returns([file |-> dat_file, name |-> <<nm.val>>])

\* The players a listing returns: for each file its name and its stem.
Listing(files, nameOf(_)) == {<<nameOf(f), f>> : f \in files}

\* nbt_lib.list_players
list_players_nbt_lib(files, uc) ==
    IF \E f \in files : get_player_name(uc, f).raised
    THEN get_player_name(uc, CHOOSE f \in files : get_player_name(uc, f).raised)
    ELSE Returns(Listing(files, LAMBDA f : get_player_name(uc, f).val))

\* The uuid -> name mapping of the dict comprehensions, as the set of its
\* <<uuid, name>> pairs (a later entry replaces an earlier one of its uuid).
Mapping(entries, keep(_)) ==
    {<<Get(entries[i].uuid), Get(entries[i].name)>> :
        i \in {j \in 1..Len(entries) :
                 /\ keep(entries[j])
                 /\ \A k \in (j + 1)..Len(entries) :
                       ~keep(entries[k]) \/ entries[k].uuid # entries[j].uuid}}

\* users.get(uuid, uuid)
NameIn(users, uuid) ==
    IF \E p \in users : p[1] = uuid THEN (CHOOSE p \in users : p[1] = uuid)[2]
    ELSE uuid

\* nbtcore.load_usercache: inside the try, the file is read only if it
\* exists; entries without both keys are left out ("uuid" in e is a
\* substring test on an entry that is a string); any exception gives {}.
\* When the file is missing no return is reached: the result is None.
load_usercache_nbtcore(uc) ==
    IF uc.kind = "missing" THEN [none |-> TRUE, val |-> {}]
    ELSE IF uc.kind = "invalid" THEN [none |-> FALSE, val |-> {}]
    ELSE [none |-> FALSE,
          val |-> Mapping(uc.entries,
                          LAMBDA e : e.obj /\ e.uuid # <<>> /\ e.name # <<>>)]

\* nbtcore.list_players: users.get on what load_usercache returned.
list_players_nbtcore(files, uc) ==
    LET users == load_usercache_nbtcore(uc)
    IN  IF users.none /\ files # {} THEN Raises("AttributeError")
        ELSE Returns(Listing(files, LAMBDA f : NameIn(users.val, f)))

\* mcplayer.load_usercache: a missing file and a JSON error give {}; the
\* comprehension entry["uuid"]: entry["name"] is outside the try.
load_usercache_mcplayer(uc) ==
    IF uc.kind \in {"missing", "invalid"} THEN Returns({})
    ELSE IF \E i \in 1..Len(uc.entries) : ~uc.entries[i].obj
    THEN Raises("TypeError")
    ELSE IF \E i \in 1..Len(uc.entries) :
               uc.entries[i].uuid = <<>> \/ uc.entries[i].name = <<>>
    THEN Raises("KeyError")
    ELSE Returns(Mapping(uc.entries, LAMBDA e : TRUE))

\* mcplayer.load_players
load_players(files, uc) ==
    LET usercache == load_usercache_mcplayer(uc)
    IN  IF usercache.raised THEN usercache
        ELSE Returns(Listing(files, LAMBDA f : NameIn(usercache.val, f)))

ServerFrame == UNCHANGED <<field, root, lastOp, parse, session, codecVars, saveVars>>

ServerInit ==
    /\ \E files \in SUBSET Stems, uc \in UserCaches :
          server = [files |-> files, usercache |-> uc, op |-> "none",
                    q |-> "", out |-> Returns(NoPlayer)]
    /\ field = <<>> /\ root = <<>> /\ lastOp = <<>> /\ parse = <<>>
    /\ session = <<>>
    /\ CodecOff
    /\ SaveOff

\* A player is asked for by identifier (nbt_tool: load_player_data).
LoadPlayerData ==
    /\ server # <<>>
    /\ \E q \in Queries :
          server' = [server EXCEPT
                        !.op = "load_player_data", !.q = q,
                        !.out = load_player_data(server.files, server.usercache, q)]
    /\ ServerFrame

\* The players are listed by one of the tools.
ListPlayers ==
    /\ server # <<>>
    /\ \E tl \in {"nbt_lib", "nbtcore", "mcplayer"} :
          server' = [server EXCEPT
                        !.op = "list_players", !.q = tl,
                        !.out = IF tl = "nbt_lib"
                                THEN list_players_nbt_lib(server.files, server.usercache)
                                ELSE IF tl = "nbtcore"
                                THEN list_players_nbtcore(server.files, server.usercache)
                                ELSE load_players(server.files, server.usercache)]
    /\ ServerFrame

ServerNext == LoadPlayerData \/ ListPlayers

ServerSpec == ServerInit /\ [][ServerNext]_vars

\* ---- the claims about lookup and enumeration ----

ServerDid(op) == IF server = <<>> THEN FALSE ELSE server.op = op

\* The identifier of a query or of a file name, up to case and dashes.
NormId(s) ==
    LET c == Chars(s)
        stem == IF EndsWith(c, Chars(".dat")) THEN Str(SubSeq(c, 1, Len(c) - 4)) ELSE s
    IN  LowerS(NoDash(stem))

Matching(files, q) == {f \in files : NormId(f) = NormId(q)}

\* The names of the usercache that the query matches, with their files.
KnownByName(files, uc, q) ==
    uc.kind = "list" /\
    \E i \in 1..Len(uc.entries) :
        /\ uc.entries[i].obj
        /\ uc.entries[i].name # <<>>
        /\ LowerS(uc.entries[i].name[1]) = LowerS(q)

\* C22: load_player_data(q) finds the player file whenever q equals the
\* identifier in the file's name up to letter case and dashes; an unknown
\* identifier or name gives the empty result and never a raised error.
C22_IdentifierResolution ==
    ServerDid("load_player_data") =>
        /\ Matching(server.files, server.q) # {} =>
              /\ ~server.out.raised
              /\ server.out.val.file # <<>>
              /\ server.out.val.file[1] \in Matching(server.files, server.q)
        /\ (Matching(server.files, server.q) = {}
            /\ ~KnownByName(server.files, server.usercache, server.q)) =>
              ~server.out.raised /\ server.out.val = NoPlayer

\* C23: when usercache.json is missing, is not valid JSON or holds entries
\* without the expected keys, enumeration does not raise and returns one
\* entry per .dat file.
C23_UsercacheTolerance ==
    (ServerDid("list_players")
     /\ \/ server.usercache.kind \in {"missing", "invalid"}
        \/ \E i \in 1..Len(server.usercache.entries) :
              \/ ~server.usercache.entries[i].obj
              \/ server.usercache.entries[i].uuid = <<>>
              \/ server.usercache.entries[i].name = <<>>) =>
        /\ ~server.out.raised
        /\ {p[2] : p \in server.out.val} = server.files
        /\ Cardinality(server.out.val) = Cardinality(server.files)

----------------------------------------------------------------------------
(* The loaded tree and its views.  A tree is a function from keys to        *)
(* values; read_nbt makes a new object each time it is called, and          *)
(* safe_root returns a reference into the object it is given.  session      *)
(* holds the file on disk, the objects in memory and who holds which.       *)

Player(h, inv) == [Health |-> h, Inventory |-> inv]
Wrapped(p) == [Data |-> p]

\* What the player file holds at the start: a bare player compound or one
\* inside a Data wrapper.
InitTrees == {Player(10, 0), Wrapped(Player(10, 0))}

\* safe_root: root["Data"] when the root has the key Data, the root itself
\* otherwise; the result is the place of the view inside the object.
safe_root(tree) == IF "Data" \in DOMAIN tree THEN <<"Data">> ELSE <<>>

\* The compound a view refers to, and an assignment made through a view.
Deref(tree, path) == IF path = <<>> THEN tree ELSE tree[path[1]]
Assign(tree, path, key, val) ==
    IF path = <<>> THEN [tree EXCEPT ![key] = val]
    ELSE [tree EXCEPT ![path[1]][key] = val]

SessionTools == {"mcplayer2", "nbtviewer", "mcplayer_app"}
EditKeys == {"Health", "Inventory"}
EditVals == {1, 2}
NoEdits == [k \in EditKeys |-> 0]

SessionFrame ==
    UNCHANGED <<field, root, lastOp, parse, server, codecVars, saveVars>>

\* No player is loaded yet.
SessionInit ==
    /\ \E tl \in SessionTools, tree \in InitTrees :
          session = [tool |-> tl, disk |-> tree, atLoad |-> tree,
                     objs |-> <<>>, nbt_file |-> 0, panel |-> 0,
                     info_root |-> <<>>, panel_root |-> <<>>,
                     edits |-> NoEdits, phase |-> "start"]
    /\ field = <<>> /\ root = <<>> /\ lastOp = <<>> /\ parse = <<>>
    /\ server = <<>>
    /\ CodecOff
    /\ SaveOff

\* main_menu of mcplayer2.py: nbt_file = read_nbt(path), root =
\* safe_root(nbt_file); the menus get root.
MainMenuLoad ==
    /\ session # <<>>
    /\ session.tool = "mcplayer2"
    /\ session.phase \in {"start", "exited"}
    /\ session' = [session EXCEPT
                      !.objs = <<session.disk>>,
                      !.nbt_file = 1, !.panel = 1,
                      !.info_root = safe_root(session.disk),
                      !.panel_root = safe_root(session.disk),
                      !.atLoad = session.disk,
                      !.edits = NoEdits,
                      !.phase = "loaded"]
    /\ SessionFrame

\* handle_player_selected of the Textual editors: one read_nbt whose root
\* goes to the panels, and InfoPanel.set_player, which calls read_nbt again
\* and keeps that file object for Save.
HandlePlayerSelected ==
    /\ session # <<>>
    /\ session.tool \in {"nbtviewer", "mcplayer_app"}
    /\ session' = [session EXCEPT
                      !.objs = <<session.disk, session.disk>>,
                      !.panel = 1, !.nbt_file = 2,
                      !.panel_root = safe_root(session.disk),
                      !.info_root = safe_root(session.disk),
                      !.atLoad = session.disk,
                      !.edits = NoEdits,
                      !.phase = "loaded"]
    /\ SessionFrame

\* An edit made by a menu of mcplayer2 or by a panel: root[key] = val on
\* the root the menu or panel was given.
PanelEdit ==
    /\ session # <<>>
    /\ session.phase = "loaded"
    /\ \E key \in EditKeys, val \in EditVals :
          session' = [session EXCEPT
                         !.objs[session.panel] =
                             Assign(@, session.panel_root, key, val),
                         !.edits[key] = val]
    /\ SessionFrame

\* handle_copy_inventory_request of nbtviewer.py:
\* self.info.root["Inventory"] = src_inv.
CopyInventory ==
    /\ session # <<>>
    /\ session.phase = "loaded"
    /\ session.tool = "nbtviewer"
    /\ \E val \in EditVals :
          session' = [session EXCEPT
                         !.objs[session.nbt_file] =
                             Assign(@, session.info_root, "Inventory", val),
                         !.edits["Inventory"] = val]
    /\ SessionFrame

\* A faulty variant of the save: the view is written, not the file object.
SavedTree_View(s) == Deref(s.objs[s.nbt_file], s.info_root)
\* What nbt_file.save(path) writes: the file object, whole.
SavedTree(s) == s.objs[s.nbt_file]

\* "Save & Exit" of run_player_menu and the Save button of InfoPanel:
\* save_nbt(nbt_file, path).
SessionSave ==
    /\ session # <<>>
    /\ session.phase = "loaded"
    /\ session' = [session EXCEPT
                      !.disk = SavedTree(session),
                      !.phase = IF session.tool = "mcplayer2" THEN "exited"
                                ELSE "saved"]
    /\ SessionFrame

\* The Reload button of InfoPanel: a new file object for InfoPanel; the
\* panels keep the root they have.
InfoReload ==
    /\ session # <<>>
    /\ session.tool \in {"nbtviewer", "mcplayer_app"}
    /\ session.phase \in {"loaded", "saved"}
    /\ session' = [session EXCEPT
                      !.objs[session.nbt_file] = session.disk,
                      !.info_root = safe_root(session.disk),
                      !.phase = "loaded"]
    /\ SessionFrame

SessionNext ==
    \/ MainMenuLoad
    \/ HandlePlayerSelected
    \/ PanelEdit
    \/ CopyInventory
    \/ SessionSave
    \/ InfoReload

SessionSpec == SessionInit /\ [][SessionNext]_vars

\* ---- the claims about the loaded tree ----

SessionIs(tools, phases) ==
    IF session = <<>> THEN FALSE
    ELSE session.tool \in tools /\ session.phase \in phases

Edited(s) == {k \in EditKeys : s.edits[k] # 0}

\* C24: safe_root gives root["Data"] when the root has the key Data and the
\* root otherwise, so the view's keys include Health; an edit made through
\* the view and saved is written inside the Data wrapper, which stays.
C24_DataWrapper ==
    /\ SessionIs({"mcplayer2"}, {"loaded"}) =>
          /\ "Health" \in DOMAIN Deref(session.objs[session.nbt_file], session.info_root)
          /\ ("Data" \in DOMAIN session.atLoad) <=> (session.info_root = <<"Data">>)
    /\ SessionIs({"mcplayer2"}, {"exited"}) =>
          /\ ("Data" \in DOMAIN session.disk) <=> ("Data" \in DOMAIN session.atLoad)
          /\ DOMAIN session.disk = DOMAIN session.atLoad
          /\ \A k \in Edited(session) :
                Deref(session.disk, safe_root(session.disk))[k] = session.edits[k]

\* A wrapped file was edited through the view and saved.
C24_Witness ==
    /\ SessionIs({"mcplayer2"}, {"exited"})
    /\ "Data" \in DOMAIN session.atLoad
    /\ session.edits["Health"] # 0
    /\ session.disk = Wrapped(Player(session.edits["Health"], 0))

\* C27: in the Textual editors, after any sequence of panel edits Save
\* writes a file whose fresh load gives the edited tree.
C27_SavePersistsEdits ==
    SessionIs({"nbtviewer", "mcplayer_app"}, {"saved"}) =>
        \A k \in Edited(session) :
            Deref(session.disk, safe_root(session.disk))[k] = session.edits[k]

----------------------------------------------------------------------------
(* One string through write_string and read_string.  The reader is given    *)
(* the bytes the format prescribes for the string (a 16-bit length, then    *)
(* the UTF-8 bytes); the writer is given the string.                        *)

\* The largest number struct's '>h' holds.
SHORT_MAX == 32767

\* Lengths tried: every short one, and two the signed prefix does not hold.
MaxSmall == 40
StrLens == (0..MaxSmall) \cup {SHORT_MAX + 1, 2 * SHORT_MAX + 1}
FillBytes == {97, 98}

\* The prefix of the format: the length as an unsigned big-endian 16-bit
\* number.
U16(n) == << n \div 256, n % 256 >>

\* The string the run is about: the bytes after the prefix.
TheString == SubSeq(data, 3, Len(data))

StringInit ==
    /\ \E n \in StrLens, b \in FillBytes : data = U16(n) \o Rep(b, n)
    /\ pos = 0
    /\ stack = <<>>
    /\ rstatus = "new"
    /\ result = None
    /\ iter = 0
    /\ out = <<>>
    /\ SaveOff
    /\ HelpersOff

\* NBTReader(data).read_string().
StringRead ==
    /\ rstatus = "new"
    /\ LET r == ReadString(data, pos)
       IN  /\ rstatus' = IF r.ok THEN "returned" ELSE "raised"
           /\ result' = r.val
           /\ pos' = r.p
    /\ UNCHANGED <<data, stack, iter, out>>
    /\ UNCHANGED <<saveVars, helperVars>>

\* NBTWriter().write_string(val); iter counts the calls.
StringWrite ==
    /\ iter = 0
    /\ iter' = 1
    /\ out' = WriteString(TheString)
    /\ UNCHANGED <<data, pos, stack, rstatus, result>>
    /\ UNCHANGED <<saveVars, helperVars>>

StringNext == StringRead \/ StringWrite

StringSpec == StringInit /\ [][StringNext]_vars

\* C26: the length prefix of a string is an unsigned 16-bit number on both
\* sides: a string of 32768..65535 bytes is written with that length, and
\* read back as the same string with 2 + length bytes consumed.
C26_UnsignedPrefix ==
    (Len(TheString) > SHORT_MAX /\ Len(TheString) <= 2 * SHORT_MAX + 1) =>
        /\ iter = 1 => out = U16(Len(TheString)) \o TheString
        /\ rstatus # "raised"
        /\ rstatus = "returned" =>
              /\ result = StrVal(TheString)
              /\ pos = 2 + Len(TheString)

=============================================================================
